---- MODULE Spec2Model ----
(***************************************************************************)
(* A model of the realtime layer of the collaborative workspace:           *)
(*   - the payload decoder sanitizeJsonString (screens/Project.jsx),       *)
(*   - the socket module (config/socket: initializeSocket, sendMessage,    *)
(*     receiveMessage, disconnect),                                        *)
(*   - the Project component: its effect, the inbound handler, send,       *)
(*     retryConnection, the template mounts and the editor's onBlur.       *)
(* Strings are sequences of one-character strings, so that the decoder's   *)
(* substring tests, JSON.parse and its regular expression are computed on  *)
(* characters.                                                             *)
(***************************************************************************)
EXTENDS Integers, Sequences, FiniteSets, TLC

(***************************************************************************)
(* Characters and character classes.                                       *)
(***************************************************************************)
Q == "\""
BSL == "\\"
TAB == "\t"
NL == "\n"
CR == "\r"
FF == "\f"
\* U+0008, which a TLA+ string cannot spell.
BSP == "<U+0008>"
\* The character a \uXXXX escape denotes; its code point is not tracked.
UCH == "<U+XXXX>"
\* What reading past the end of a string yields.
EOS == ""

JsonWs == {" ", TAB, NL, CR}
RegexWs == {" ", TAB, NL, CR, FF}
LineTerminators == {NL, CR}
ControlChars == {TAB, NL, CR, FF, BSP}
Digits == {"0", "1", "2", "3", "4", "5", "6", "7", "8", "9"}
HexDigits == Digits \cup {"a", "b", "c", "d", "e", "f", "A", "B", "C", "D", "E", "F"}

At(s, p) == IF p >= 1 /\ p <= Len(s) THEN s[p] ELSE EOS

\* String.prototype.includes / startsWith at a position (1-based).
StartsWithAt(s, pat, i) ==
    /\ i >= 1
    /\ i + Len(pat) - 1 <= Len(s)
    /\ \A k \in 1..Len(pat) : s[i + k - 1] = pat[k]

includes(s, pat) == \E i \in 1..(Len(s) + 1) : StartsWithAt(s, pat, i)

\* The first position at or after p whose character is not in class.
SkipWhile(s, p, class) ==
    CHOOSE q \in p..(Len(s) + 1) :
        /\ q = Len(s) + 1 \/ s[q] \notin class
        /\ \A r \in p..(q - 1) : s[r] \in class

(***************************************************************************)
(* JavaScript values, as far as JSON.parse produces them.  t is the type   *)
(* tag; s holds the characters of a string (or the lexeme of a number);    *)
(* a holds the elements of an array, or the members [k, v] of an object in *)
(* insertion order.                                                        *)
(***************************************************************************)
JV(t, s, a) == [t |-> t, s |-> s, a |-> a]
JNull == JV("null", <<>>, <<>>)
JTrue == JV("true", <<>>, <<>>)
JFalse == JV("false", <<>>, <<>>)
JStr(s) == JV("str", s, <<>>)
JObj(members) == JV("obj", <<>>, members)

Has(v, k) == v.t = "obj" /\ \E i \in 1..Len(v.a) : v.a[i].k = k
Get(v, k) == LET i == CHOOSE j \in 1..Len(v.a) : v.a[j].k = k IN v.a[i].v

\* Property assignment: a repeated key keeps its place and takes the new value.
Put(members, k, v) ==
    IF \E i \in 1..Len(members) : members[i].k = k
    THEN [i \in 1..Len(members) |->
            IF members[i].k = k THEN [k |-> k, v |-> v] ELSE members[i]]
    ELSE Append(members, [k |-> k, v |-> v])

(***************************************************************************)
(* JSON.parse (ECMA-404 grammar), by recursive descent.  A result is       *)
(* [ok, v, p]: whether a value was read, the value, and the position after *)
(* it.                                                                     *)
(***************************************************************************)
Fail == [ok |-> FALSE, v |-> JNull, p |-> 0]
Ok(v, p) == [ok |-> TRUE, v |-> v, p |-> p]

Escaped(e) ==
    CASE e = "b" -> BSP
      [] e = "f" -> FF
      [] e = "n" -> NL
      [] e = "r" -> CR
      [] e = "t" -> TAB
      [] OTHER -> e

\* The one element of a singleton.  {F(x) : x \in {e}} evaluates e once
\* for all the uses of x in F.
The(S) == CHOOSE x \in S : TRUE

RECURSIVE StringBody(_, _, _)
\* The characters of a string literal from position i (after the opening
\* quote) to its closing quote.
StringBody(s, i, acc) ==
    IF i > Len(s) THEN Fail
    ELSE IF s[i] = Q THEN Ok(JStr(acc), i + 1)
    ELSE IF s[i] = BSL THEN
        LET e == At(s, i + 1) IN
        IF e \in {Q, BSL, "/", "b", "f", "n", "r", "t"}
        THEN StringBody(s, i + 2, Append(acc, Escaped(e)))
        ELSE IF e = "u" /\ \A k \in 2..5 : At(s, i + k) \in HexDigits
        THEN StringBody(s, i + 6, Append(acc, UCH))
        ELSE Fail
    ELSE IF s[i] \in ControlChars THEN Fail
    ELSE StringBody(s, i + 1, Append(acc, s[i]))

\* The position after the number that starts at p, or 0 if none does.
NumberEnd(s, p) ==
    LET p1 == IF At(s, p) = "-" THEN p + 1 ELSE p
        intEnd == IF At(s, p1) = "0" THEN p1 + 1
                  ELSE IF At(s, p1) \in Digits THEN SkipWhile(s, p1, Digits)
                  ELSE 0
        fracEnd == IF intEnd = 0 THEN 0
                   ELSE IF At(s, intEnd) = "."
                   THEN IF At(s, intEnd + 1) \in Digits
                        THEN SkipWhile(s, intEnd + 1, Digits) ELSE 0
                   ELSE intEnd
        expAt == IF At(s, fracEnd + 1) \in {"+", "-"} THEN fracEnd + 2 ELSE fracEnd + 1
    IN  IF fracEnd = 0 THEN 0
        ELSE IF At(s, fracEnd) \in {"e", "E"}
        THEN IF At(s, expAt) \in Digits THEN SkipWhile(s, expAt, Digits) ELSE 0
        ELSE fracEnd

RECURSIVE ParseValue(_, _)
RECURSIVE ParseMembers(_, _, _)
RECURSIVE ParseElements(_, _, _)

\* The members of an object; p is at the first character of a member.
ParseMembers(s, p, acc) ==
    IF At(s, p) # Q THEN Fail
    ELSE The({
        IF ~k.ok THEN Fail
        ELSE The({
            IF At(s, c) # ":" THEN Fail
            ELSE The({
                IF ~v.ok THEN Fail
                ELSE The({
                    IF At(s, e) = "}" THEN Ok(JObj(Put(acc, k.v.s, v.v)), e + 1)
                    ELSE IF At(s, e) = ","
                    THEN The({ParseMembers(s, n, acc2) :
                                 n \in {SkipWhile(s, e + 1, JsonWs)},
                                 acc2 \in {Put(acc, k.v.s, v.v)}})
                    ELSE Fail
                    : e \in {SkipWhile(s, v.p, JsonWs)}})
                : v \in {ParseValue(s, c + 1)}})
            : c \in {SkipWhile(s, k.p, JsonWs)}})
        : k \in {StringBody(s, p + 1, <<>>)}})

\* The elements of an array; p is where an element is expected.
ParseElements(s, p, acc) ==
    The({
        IF ~v.ok THEN Fail
        ELSE The({
            IF At(s, e) = "]" THEN Ok(JV("arr", <<>>, Append(acc, v.v)), e + 1)
            ELSE IF At(s, e) = ","
            THEN The({ParseElements(s, n, acc2) :
                         n \in {e + 1}, acc2 \in {Append(acc, v.v)}})
            ELSE Fail
            : e \in {SkipWhile(s, v.p, JsonWs)}})
        : v \in {ParseValue(s, p)}})

ParseValue(s, p) ==
    The({
        LET c == At(s, q)
            n == NumberEnd(s, q)
            q1 == SkipWhile(s, q + 1, JsonWs)
        IN  IF c = "{" THEN
                IF At(s, q1) = "}" THEN Ok(JObj(<<>>), q1 + 1) ELSE ParseMembers(s, q1, <<>>)
            ELSE IF c = "[" THEN
                IF At(s, q1) = "]" THEN Ok(JV("arr", <<>>, <<>>), q1 + 1)
                ELSE ParseElements(s, q + 1, <<>>)
            ELSE IF c = Q THEN StringBody(s, q + 1, <<>>)
            ELSE IF StartsWithAt(s, <<"t", "r", "u", "e">>, q) THEN Ok(JTrue, q + 4)
            ELSE IF StartsWithAt(s, <<"f", "a", "l", "s", "e">>, q) THEN Ok(JFalse, q + 5)
            ELSE IF StartsWithAt(s, <<"n", "u", "l", "l">>, q) THEN Ok(JNull, q + 4)
            ELSE IF n # 0 THEN Ok(JV("num", SubSeq(s, q, n - 1), <<>>), n)
            ELSE Fail
        : q \in {SkipWhile(s, p, JsonWs)}})

\* JSON.parse: one value, then only white space.  ~ok models the SyntaxError.
JSONparse(s) ==
    The({IF r.ok /\ SkipWhile(s, r.p, JsonWs) = Len(s) + 1 THEN r ELSE Fail :
            r \in {ParseValue(s, 1)}})

(***************************************************************************)
(* sanitizeJsonString (Project.jsx 11-74).                                 *)
(***************************************************************************)
kText == <<"t", "e", "x", "t">>
kFileTree == <<"f", "i", "l", "e", "T", "r", "e", "e">>
Quoted(w) == <<Q>> \o w \o <<Q>>
wReact == <<"r", "e", "a", "c", "t">>
wPackageJson == <<"p", "a", "c", "k", "a", "g", "e", ".", "j", "s", "o", "n">>

\* The fixed texts of the decoder, each kept as one unit of a string; FENCE
\* stands for the three backquotes of a Markdown code fence.
ReactFilesText == <<"Creating React application files. Check the file explorer panel.">>
StructureText == <<"FENCE\nFile structure created. Check the file explorer panel.\nFENCE">>
FailedMarker == <<"AI response (JSON parsing failed):\n\nFENCE\n">>
FenceEnd == <<"\nFENCE">>
Ellipsis == <<".", ".", ".">>
ExcerptMax == 300

\* /"text"\s*:\s*"((?:[^"\\]|\\.|[\s\S])*?)(?:"[,}]|$)/ : the position of the
\* first character of the group when the pattern's head matches at i, else 0.
TextHeadAt(s, i) ==
    IF ~StartsWithAt(s, Quoted(kText), i) THEN 0
    ELSE LET c == SkipWhile(s, i + 6, RegexWs) IN
    IF At(s, c) # ":" THEN 0
    ELSE LET o == SkipWhile(s, c + 1, RegexWs) IN
    IF At(s, o) # Q THEN 0 ELSE o + 1

RECURSIVE LazyGroupEnd(_, _)
\* The lazy group from p: it stops at the first position where "[,}] or the
\* end of the input follows; otherwise one more alternative is consumed, an
\* escape pair \. (. is no line terminator) before a single character.
LazyGroupEnd(s, p) ==
    IF p > Len(s) THEN p
    ELSE IF s[p] = Q /\ At(s, p + 1) \in {",", "}"} THEN p
    ELSE IF s[p] = BSL /\ p + 1 <= Len(s) /\ s[p + 1] \notin LineTerminators
    THEN LazyGroupEnd(s, p + 2)
    ELSE LazyGroupEnd(s, p + 1)

\* jsonString.match(...): [matched, g] with g the first capture group, taken
\* at the leftmost position where the head matches.
textMatch(s) ==
    LET starts == {i \in 1..Len(s) : TextHeadAt(s, i) # 0} IN
    IF starts = {} THEN [matched |-> FALSE, g |-> <<>>]
    ELSE LET i == CHOOSE j \in starts : \A k \in starts : j <= k
             g0 == TextHeadAt(s, i)
         IN  [matched |-> TRUE, g |-> SubSeq(s, g0, LazyGroupEnd(s, g0) - 1)]

RECURSIVE ReplaceFrom(_, _, _, _)
\* s.replace(/\\c/g, r) from position i on.
ReplaceFrom(s, i, c, r) ==
    IF i > Len(s) THEN <<>>
    ELSE IF s[i] = BSL /\ At(s, i + 1) = c
    THEN <<r>> \o ReplaceFrom(s, i + 2, c, r)
    ELSE <<s[i]>> \o ReplaceFrom(s, i + 1, c, r)

\* s.replace(/\\c/g, r): every backslash followed by c becomes r, left to right.
ReplacePair(s, c, r) == The({ReplaceFrom(t, 1, c, r) : t \in {s}})

\* The captured text left as it was matched.
UnescapeNothing(g) == g

Unescape(g) == ReplacePair(ReplacePair(g, Q, Q), "n", NL)

\* The input shown whole, whatever its length.
ExcerptWhole(s) == s

Excerpt(s) == IF Len(s) > ExcerptMax THEN SubSeq(s, 1, ExcerptMax) \o Ellipsis ELSE s

TextOnly(t) == JObj(<<[k |-> kText, v |-> JStr(t)]>>)
TextAndFlag(t) == JObj(<<[k |-> kText, v |-> JStr(t)], [k |-> kFileTree, v |-> JTrue]>>)

\* The condition of the first return: a "fileTree" key with a template word.
TemplateMarker(jsonString) ==
    /\ includes(jsonString, Quoted(kFileTree))
    /\ includes(jsonString, wReact) \/ includes(jsonString, wPackageJson)

\* catch (parseError): the text by the pattern, else the "fileTree" notice,
\* else the excerpt.
onParseError(jsonString) ==
    The({
        IF m.matched /\ m.g # <<>> THEN TextOnly(Unescape(m.g))
        ELSE IF includes(jsonString, Quoted(kFileTree)) THEN TextAndFlag(StructureText)
        ELSE TextOnly(FailedMarker \o Excerpt(jsonString) \o FenceEnd)
        : m \in {textMatch(jsonString)}})

\* sanitizeJsonString without its JSON.parse: the text is always looked for
\* by the pattern.
sanitizeJsonStringWithoutParse(jsonString) ==
    IF TemplateMarker(jsonString)
    THEN TextAndFlag(ReactFilesText)
    ELSE onParseError(jsonString)

\* sanitizeJsonString with JSON.parse tried before the template marker.
sanitizeJsonStringParseFirst(jsonString) ==
    The({
        IF parsed.ok THEN parsed.v
        ELSE IF TemplateMarker(jsonString) THEN TextAndFlag(ReactFilesText)
        ELSE onParseError(jsonString)
        : parsed \in {JSONparse(jsonString)}})

sanitizeJsonString(jsonString) ==
    IF TemplateMarker(jsonString)
    THEN TextAndFlag(ReactFilesText)
    ELSE The({
        IF parsed.ok THEN parsed.v ELSE onParseError(jsonString)
        : parsed \in {JSONparse(jsonString)}})

(***************************************************************************)
(* Bounds of the model.                                                    *)
(***************************************************************************)
\* The number of fragments an input of the decoder is put together from.
MaxFrags == 3
\* The number of sockets io() creates in one behaviour.
MaxSockets == 3
\* The length of the Timeline up to which sends and inbound events occur.
MaxTimeline == 3
\* The number of sandbox mounts started in one behaviour.
MaxMounts == 2
\* The number of persistence calls in one behaviour.
MaxSaves == 2
\* The number of receiveMessage calls of the socket module's own client.
MaxCalls == 3

(***************************************************************************)
(* The state.                                                              *)
(***************************************************************************)
VARIABLES
    \* config/socket (module level)
    socket,             \* 0 for null, else the index in sockets of the current socket
    reconnectAttempts,
    sockets,            \* every socket io() has created: [phase, retries, handlers]
    emitted,            \* what socket.emit has sent: [sock, data]
    \* the Project component
    lifecycle,          \* "init" before the effect has run, "open", "closed" when unmounted
    cleanup,            \* whether the effect has returned its cleanup function
    project,            \* project._id
    message,
    messages,           \* the Timeline
    fileTree,
    socketError,
    currentFile,
    openFiles,          \* the editor's tabs, in the order they were opened
    webContainer,       \* FALSE for null, TRUE for the booted container
    \* asynchronous work in flight
    boots,              \* getWebContainer() promises pending
    fetches,            \* project fetches pending
    mounts,             \* every webContainer.mount: [tree, origin, status]
    mounted,            \* the tree the sandbox holds
    saves,              \* the file-tree persistence: the number of calls, the last payload,
                        \* the calls not yet answered, the calls that failed
    \* what the last call returned
    sendRet,            \* sendMessage in send: "none", "true", "false"
    editRet,            \* onBlur: "none", "ok", "TypeError"
    \* the socket module under a client of its own
    recvLog,            \* every receiveMessage call: [live, ret]; the callback is its index
    invoked,            \* the callbacks the sockets have invoked
    \* the history of the inbound handler
    observed,           \* every 'project-message' event the component's handler was run with
    \* the decoder on its own
    dRaw,
    dOut,
    dDone

chanVars == <<socket, reconnectAttempts, sockets, emitted>>
compVars == <<lifecycle, cleanup, project, message, messages, fileTree, socketError,
              currentFile, openFiles, webContainer>>
asyncVars == <<boots, fetches, mounts, mounted, saves>>
retVars == <<sendRet, editRet>>
decVars == <<dRaw, dOut, dDone>>
callVars == <<recvLog, invoked, observed>>
vars == <<chanVars, compVars, asyncVars, retVars, decVars, callVars>>

(***************************************************************************)
(* The decoder on its own: an input is drawn, sanitizeJsonString is        *)
(* applied to it.                                                          *)
(***************************************************************************)
JUndef == JV("undefined", <<>>, <<>>)

Fragments ==
    { <<"{">>, <<"}">>, <<"[">>, <<"]">>, <<",">>, <<Q>>, <<"1">>, <<"h", "i">>,
      <<BSL, Q>>, <<BSL, "n">>,
      <<"n", "u", "l", "l">>,
      wReact,
      Quoted(kFileTree),
      <<"{">> \o Quoted(kText) \o <<":", Q, "h", "i", Q>>,
      <<"{">> \o Quoted(kText) \o <<":", Q>>,
      <<"{">> \o Quoted(kText) \o <<":", Q>> \o wReact \o <<Q>>,
      <<",">> \o Quoted(kFileTree) \o <<":", "t", "r", "u", "e">>,
      <<",">> \o Quoted(kFileTree) \o <<":", "{", "}">>,
      <<",">> \o Quoted(kFileTree) \o <<":", "{">> \o Quoted(<<"a">>) \o <<":", "1", "}">> }

RECURSIVE Flatten(_)
Flatten(fs) == IF fs = <<>> THEN <<>> ELSE Head(fs) \o Flatten(Tail(fs))

\* Inputs of ExcerptMax characters and more: a filler, alone or followed by
\* a fragment.
Filler == [i \in 1..ExcerptMax |-> "x"]
LongInputs == {Filler \o f : f \in Fragments \cup {<<>>}}

RawInputs ==
    {Flatten(fs) : fs \in UNION {[1..n -> Fragments] : n \in 0..MaxFrags}} \cup LongInputs

(***************************************************************************)
(* JavaScript object operations the component applies to file trees.       *)
(***************************************************************************)
DigitChar(d) == CASE d = 0 -> "0" [] d = 1 -> "1" [] d = 2 -> "2" [] d = 3 -> "3"
                  [] d = 4 -> "4" [] d = 5 -> "5" [] d = 6 -> "6" [] d = 7 -> "7"
                  [] d = 8 -> "8" [] OTHER -> "9"
\* The property name of index n (below 100).
IndexKey(n) == IF n < 10 THEN <<DigitChar(n)>> ELSE <<DigitChar(n \div 10), DigitChar(n % 10)>>

\* v[k] for a property name k that is no array index.
Prop(v, k) == IF Has(v, k) THEN Get(v, k) ELSE JUndef

\* The own enumerable properties, as {...v} copies them.
Spread(v) ==
    CASE v.t = "obj" -> v.a
      [] v.t = "arr" -> [i \in 1..Len(v.a) |-> [k |-> IndexKey(i - 1), v |-> v.a[i]]]
      [] v.t = "str" -> [i \in 1..Len(v.s) |-> [k |-> IndexKey(i - 1), v |-> JStr(<<v.s[i]>>)]]
      [] OTHER -> <<>>

\* Object.keys(v)
ObjectKeys(v) == LET m == Spread(v) IN [i \in 1..Len(m) |-> m[i].k]

\* A number is falsy when it is zero: no digit of its mantissa is non-zero.
IsZero(lex) ==
    LET e == {i \in 1..Len(lex) : lex[i] \in {"e", "E"}}
        n == IF e = {} THEN Len(lex) ELSE (CHOOSE i \in e : TRUE) - 1
    IN  \A i \in 1..n : lex[i] \notin (Digits \ {"0"})

Truthy(v) ==
    CASE v.t \in {"undefined", "null", "false"} -> FALSE
      [] v.t = "str" -> v.s # <<>>
      [] v.t = "num" -> ~IsZero(v.s)
      [] OTHER -> TRUE

RECURSIVE split(_, _)
\* path.split(sep) for a one-character separator.
split(path, sep) ==
    LET at == {i \in 1..Len(path) : path[i] = sep} IN
    IF at = {} THEN <<path>>
    ELSE LET i == CHOOSE j \in at : \A k \in at : j <= k
         IN  <<SubSeq(path, 1, i - 1)>> \o split(SubSeq(path, i + 1, Len(path)), sep)

LowerChar(c) ==
    CASE c = "A" -> "a" [] c = "B" -> "b" [] c = "C" -> "c" [] c = "D" -> "d"
      [] c = "E" -> "e" [] c = "F" -> "f" [] c = "G" -> "g" [] c = "H" -> "h"
      [] c = "I" -> "i" [] c = "J" -> "j" [] c = "K" -> "k" [] c = "L" -> "l"
      [] c = "M" -> "m" [] c = "N" -> "n" [] c = "O" -> "o" [] c = "P" -> "p"
      [] c = "Q" -> "q" [] c = "R" -> "r" [] c = "S" -> "s" [] c = "T" -> "t"
      [] c = "U" -> "u" [] c = "V" -> "v" [] c = "W" -> "w" [] c = "X" -> "x"
      [] c = "Y" -> "y" [] c = "Z" -> "z" [] OTHER -> c
toLowerCase(s) == [i \in 1..Len(s) |-> LowerChar(s[i])]

\* s.trim() is empty
IsBlank(s) == \A i \in 1..Len(s) : s[i] \in RegexWs

(***************************************************************************)
(* File trees.  A tree is the JavaScript object the component holds:       *)
(* { name: { file: { contents } } | { directory: { name: ... } } }.        *)
(***************************************************************************)
kFile == <<"f", "i", "l", "e">>
kDirectory == <<"d", "i", "r", "e", "c", "t", "o", "r", "y">>
kContents == <<"c", "o", "n", "t", "e", "n", "t", "s">>
SLASH == "/"

Member(k, v) == [k |-> k, v |-> v]
FileLeaf(c) == JObj(<<Member(kFile, JObj(<<Member(kContents, JStr(c))>>))>>)
Directory(members) == JObj(<<Member(kDirectory, JObj(members))>>)
EmptyTree == JObj(<<>>)

nSrc == <<"s", "r", "c">>
nPublic == <<"p", "u", "b", "l", "i", "c">>
nAppJs == <<"A", "p", "p", ".", "j", "s">>
nIndexJs == <<"i", "n", "d", "e", "x", ".", "j", "s">>
nIndexHtml == <<"i", "n", "d", "e", "x", ".", "h", "t", "m", "l">>
nAppJsLower == <<"a", "p", "p", ".", "j", "s">>
nRoutes == <<"r", "o", "u", "t", "e", "s">>
nApiJs == <<"a", "p", "i", ".", "j", "s">>
nControllers == <<"c", "o", "n", "t", "r", "o", "l", "l", "e", "r", "s">>
nUserControllerJs == <<"u", "s", "e", "r", "C", "o", "n", "t", "r", "o", "l", "l", "e", "r", ".", "j", "s">>

\* The templates; the text of each file is kept as one unit.
basicReactApp ==
    JObj(<< Member(wPackageJson, FileLeaf(<<"react-app package.json">>)),
            Member(nPublic, Directory(<<Member(nIndexHtml, FileLeaf(<<"<!DOCTYPE html>...">>))>>)),
            Member(nSrc, Directory(<< Member(nIndexJs, FileLeaf(<<"import React from 'react'; ... root.render">>)),
                                      Member(nAppJs, FileLeaf(<<"import React from 'react'; ... export default App;">>)) >>)) >>)

expressApp ==
    JObj(<< Member(wPackageJson, FileLeaf(<<"express-app package.json">>)),
            Member(nAppJsLower, FileLeaf(<<"const express = require('express'); ...">>)),
            Member(nRoutes, Directory(<<Member(nApiJs, FileLeaf(<<"const router = express.Router(); ...">>))>>)),
            Member(nControllers, Directory(<<Member(nUserControllerJs, FileLeaf(<<"let users = [ ... ];">>))>>)) >>)

(***************************************************************************)
(* The inputs of the component: project ids, the trees the project fetch   *)
(* returns, the texts of local and inbound messages, edited contents.      *)
(***************************************************************************)
\* A project without _id.
NoId == ""
InitialProjects == {NoId, "p1"}
FetchedProjects == {"p1", "p2"}

nATxt == <<"a", ".", "t", "x", "t">>
\* { src: { directory: { "App.js", "index.js" } }, "a.txt": file }
SeedA ==
    JObj(<< Member(nSrc, Directory(<< Member(nAppJs, FileLeaf(<<"a">>)),
                                      Member(nIndexJs, FileLeaf(<<"b">>)) >>)),
            Member(nATxt, FileLeaf(<<"c">>)) >>)
\* res.data.project.fileTree || {}
SeedTrees == {EmptyTree, SeedA}

EditContents == {<<"x">>}

Me == "u1"
Peer == "u2"
Ai == "ai"

\* hi
tHi ==
    <<"h", "i">>
\* please @AI Create React App now
tReactCmd ==
    <<"p", "l", "e", "a", "s", "e", " ", "@", "A", "I", " ", "C", "r", "e", "a", "t",
      "e", " ", "R", "e", "a", "c", "t", " ", "A", "p", "p", " ", "n", "o", "w">>
\* @ai create an express server
tExpressCmd ==
    <<"@", "a", "i", " ", "c", "r", "e", "a", "t", "e", " ", "a", "n", " ", "e", "x",
      "p", "r", "e", "s", "s", " ", "s", "e", "r", "v", "e", "r">>
reactPhrase ==
    <<"@", "a", "i", " ", "c", "r", "e", "a", "t", "e", " ", "r", "e", "a", "c", "t",
      " ", "a", "p", "p">>
expressPhrase ==
    <<"@", "a", "i", " ", "c", "r", "e", "a", "t", "e", " ", "e", "x", "p", "r", "e",
      "s", "s", " ", "s", "e", "r", "v", "e", "r">>
expressPhraseAn ==
    <<"@", "a", "i", " ", "c", "r", "e", "a", "t", "e", " ", "a", "n", " ", "e", "x",
      "p", "r", "e", "s", "s", " ", "s", "e", "r", "v", "e", "r">>
wExpress ==
    <<"e", "x", "p", "r", "e", "s", "s">>
\* {"text":"hi"}
aiPlain ==
    <<"{", Q, "t", "e", "x", "t", Q, ":", Q, "h", "i", Q, "}">>
\* {"text":"hi","fileTree":{"src":{"file":{"contents":"x"}}}}
aiInlineTree ==
    <<"{", Q, "t", "e", "x", "t", Q, ":", Q, "h", "i", Q, ",", Q, "f", "i", "l", "e",
      "T", "r", "e", "e", Q, ":", "{", Q, "s", "r", "c", Q, ":", "{", Q, "f", "i",
      "l", "e", Q, ":", "{", Q, "c", "o", "n", "t", "e", "n", "t", "s", Q, ":", Q,
      "x", Q, "}", "}", "}", "}">>
\* {"text":"a react app","fileTree":true}
aiFlagReact ==
    <<"{", Q, "t", "e", "x", "t", Q, ":", Q, "a", " ", "r", "e", "a", "c", "t", " ",
      "a", "p", "p", Q, ",", Q, "f", "i", "l", "e", "T", "r", "e", "e", Q, ":", "t",
      "r", "u", "e", "}">>

\* {"text":"@ai create react app"}
aiReactPhrase ==
    <<"{">> \o Quoted(kText) \o <<":", Q>> \o reactPhrase \o <<Q, "}">>

\* @ai create react app @ai create express server
tReactThenExpress == reactPhrase \o <<" ">> \o expressPhrase
\* @ai create an express server @ai create react app
tExpressThenReact == expressPhraseAn \o <<" ">> \o reactPhrase

LocalTexts == {<<>>, <<" ">>, tHi}
UserTexts == {tHi, tReactCmd, tExpressCmd, tReactThenExpress, tExpressThenReact}
\* {"text":<text>,"fileTree":true}
FlagMessage(text) ==
    <<"{">> \o Quoted(kText) \o <<":", Q>> \o text \o <<Q, ",">> \o Quoted(kFileTree)
    \o <<":", "t", "r", "u", "e", "}">>
\* an Express server / hi / Express or React
aiFlagExpress == FlagMessage(<<"a", "n", " ", "E">> \o <<"x", "p", "r", "e", "s", "s">>)
aiFlagNeither == FlagMessage(tHi)
aiFlagBoth == FlagMessage(<<"E", "x", "p", "r", "e", "s", "s", " ", "o", "r", " ", "R", "e", "a", "c", "t">>)

\* tHi from the automated sender is a message that is not JSON.
AiTexts ==
    {aiPlain, aiInlineTree, aiFlagReact, aiReactPhrase, tHi, aiFlagExpress, aiFlagNeither,
     aiFlagBoth}
Inbound ==
    {[sender |-> u, message |-> t] : u \in {Me, Peer}, t \in UserTexts}
    \cup {[sender |-> Ai, message |-> t] : t \in AiTexts}

\* JSON.stringify({ text }) of a synthetic message, its text kept as one unit.
Synthetic(text) ==
    [sender |-> Ai, message |-> <<"{">> \o Quoted(kText) \o <<":", Q, text, Q, "}">>]
ThinkingReact == Synthetic("Creating a React application...")
ThinkingExpress == Synthetic("Creating an Express server...")
ReactCreated == Synthetic("React app created successfully!")
ExpressCreated == Synthetic("Express server created successfully!")
ReactFailed == Synthetic("Failed to create React app: <err.message>")
ExpressFailed == Synthetic("Failed to create Express app: <err.message>")

(***************************************************************************)
(* config/socket.  A socket is [phase, retries, handlers]: phase is        *)
(* "connecting" (the client is attempting, or has scheduled, a             *)
(* connection), "connected", "stopped" (the client has given up or the     *)
(* server has closed the connection: nothing is scheduled) or "closed"     *)
(* (socket.disconnect() was called); retries counts the reconnection       *)
(* attempts the client has made since it last connected; handlers are the  *)
(* 'project-message' listeners, each the closure it was created with.      *)
(***************************************************************************)
MAX_RECONNECT_ATTEMPTS == 5

\* socket.disconnect()
Disconnected(sks, i) == [sks EXCEPT ![i].phase = "closed", ![i].retries = 0]

Channel(sk, sks) == [socket |-> sk, sockets |-> sks]

\* initializeSocket without its "close existing socket if any".
initializeSocketLeavesOld(ch, projectId) ==
    IF projectId = NoId
    THEN [socket |-> ch.socket, sockets |-> ch.sockets, ret |-> 0]
    ELSE LET new == Append(ch.sockets,
                           [phase |-> "connecting", retries |-> 0, handlers |-> <<>>])
         IN  [socket |-> Len(new), sockets |-> new, ret |-> Len(new)]

initializeSocket(ch, projectId) ==
    IF projectId = NoId
    THEN [socket |-> ch.socket, sockets |-> ch.sockets, ret |-> 0]
    ELSE LET old == IF ch.socket # 0 THEN Disconnected(ch.sockets, ch.socket) ELSE ch.sockets
             new == Append(old, [phase |-> "connecting", retries |-> 0, handlers |-> <<>>])
         IN  [socket |-> Len(new), sockets |-> new, ret |-> Len(new)]

\* sendMessage with the guard !socket alone, without !socket.connected.
sendMessageAnyPhase(ch, em, data) ==
    IF ch.socket = 0
    THEN [ret |-> FALSE, emitted |-> em]
    ELSE [ret |-> TRUE, emitted |-> Append(em, [sock |-> ch.socket, data |-> data])]

sendMessage(ch, em, data) ==
    IF ch.socket = 0 \/ ch.sockets[ch.socket].phase # "connected"
    THEN [ret |-> FALSE, emitted |-> em]
    ELSE [ret |-> TRUE, emitted |-> Append(em, [sock |-> ch.socket, data |-> data])]

\* receiveMessage without the guard !socket.
receiveMessageUnguarded(ch, callback) ==
    IF ch.socket = 0
    THEN [ret |-> TRUE, sockets |-> ch.sockets]
    ELSE [ret |-> TRUE,
          sockets |-> [ch.sockets EXCEPT ![ch.socket].handlers = Append(@, callback)]]

receiveMessage(ch, callback) ==
    IF ch.socket = 0
    THEN [ret |-> FALSE, sockets |-> ch.sockets]
    ELSE [ret |-> TRUE,
          sockets |-> [ch.sockets EXCEPT ![ch.socket].handlers = Append(@, callback)]]

\* disconnect without socket = null.
disconnectKeepsSocket(ch) ==
    IF ch.socket # 0
    THEN Channel(ch.socket, Disconnected(ch.sockets, ch.socket))
    ELSE Channel(ch.socket, ch.sockets)

disconnect(ch) ==
    IF ch.socket # 0
    THEN Channel(0, Disconnected(ch.sockets, ch.socket))
    ELSE Channel(ch.socket, ch.sockets)

\* The phase of the channel, in the words of the state machine.
ChannelPhase ==
    IF socket = 0 THEN "Disconnected"
    ELSE CASE sockets[socket].phase = "connected" -> "Connected"
           [] sockets[socket].phase = "connecting" -> "Connecting"
           [] OTHER -> "Disconnected"

(***************************************************************************)
(* The events of the socket client.  The client is created with            *)
(* reconnection on and reconnectionAttempts MAX_RECONNECT_ATTEMPTS: a      *)
(* failed attempt raises connect_error and is followed by another attempt  *)
(* until that many reconnection attempts have failed.                      *)
(***************************************************************************)
\* socket.on('connect_error')
ConnectError(i) ==
    /\ sockets[i].phase = "connecting"
    /\ reconnectAttempts' = reconnectAttempts + 1
    /\ sockets' = IF sockets[i].retries < MAX_RECONNECT_ATTEMPTS
                  THEN [sockets EXCEPT ![i].retries = @ + 1]
                  ELSE [sockets EXCEPT ![i].phase = "stopped"]
    /\ UNCHANGED <<socket, emitted, compVars, asyncVars, retVars, decVars, callVars>>

\* A client that goes on trying after it has given up.
ConnectAfterGivingUp(i) ==
    /\ sockets[i].phase \in {"connecting", "stopped"}
    /\ reconnectAttempts' = 0
    /\ sockets' = [sockets EXCEPT ![i].phase = "connected", ![i].retries = 0]
    /\ UNCHANGED <<socket, emitted, compVars, asyncVars, retVars, decVars, callVars>>

\* socket.on('connect')
Connect(i) ==
    /\ sockets[i].phase = "connecting"
    /\ reconnectAttempts' = 0
    /\ sockets' = [sockets EXCEPT ![i].phase = "connected", ![i].retries = 0]
    /\ UNCHANGED <<socket, emitted, compVars, asyncVars, retVars, decVars, callVars>>

\* socket.on('disconnect') for a connection that was lost: the client
\* reconnects, unless the server closed the connection.
ConnectionLost(i) ==
    /\ sockets[i].phase = "connected"
    /\ \E next \in {"connecting", "stopped"} :
           sockets' = [sockets EXCEPT ![i].phase = next]
    /\ UNCHANGED <<socket, reconnectAttempts, emitted, compVars, asyncVars, retVars, decVars, callVars>>

(***************************************************************************)
(* The socket module under a client of its own, which calls the exported   *)
(* functions in any order.  The callback of the n-th receiveMessage call   *)
(* is [id |-> n].                                                          *)
(***************************************************************************)
CallInitialize(projectId) ==
    /\ projectId # NoId => Len(sockets) < MaxSockets
    /\ socket' = initializeSocket(Channel(socket, sockets), projectId).socket
    /\ sockets' = initializeSocket(Channel(socket, sockets), projectId).sockets
    /\ UNCHANGED <<reconnectAttempts, emitted, compVars, asyncVars, retVars, decVars, callVars>>

CallReceive ==
    /\ Len(recvLog) < MaxCalls
    /\ recvLog' = Append(recvLog,
                         [live |-> socket # 0,
                          ret |-> receiveMessage(Channel(socket, sockets),
                                                 [id |-> Len(recvLog) + 1]).ret])
    /\ sockets' = receiveMessage(Channel(socket, sockets), [id |-> Len(recvLog) + 1]).sockets
    /\ UNCHANGED <<socket, reconnectAttempts, emitted, compVars, asyncVars, retVars, decVars,
                   invoked, observed>>

CallDisconnect ==
    /\ socket' = disconnect(Channel(socket, sockets)).socket
    /\ sockets' = disconnect(Channel(socket, sockets)).sockets
    /\ UNCHANGED <<reconnectAttempts, emitted, compVars, asyncVars, retVars, decVars, callVars>>

\* An event arrives on socket i: the socket invokes the listeners it holds.
Deliver(i) ==
    /\ sockets[i].phase = "connected"
    /\ invoked' = invoked \cup {sockets[i].handlers[k].id : k \in 1..Len(sockets[i].handlers)}
    /\ UNCHANGED <<chanVars, compVars, asyncVars, retVars, decVars, recvLog, observed>>

(***************************************************************************)
(* The Project component.                                                  *)
(***************************************************************************)
\* No call of the file-tree persistence yet.
NoSaves == [calls |-> 0, last |-> [projectId |-> NoId, fileTree |-> EmptyTree],
            pending |-> 0, failed |-> 0]

InitComponent ==
    /\ socket = 0
    /\ reconnectAttempts = 0
    /\ sockets = <<>>
    /\ emitted = <<>>
    /\ lifecycle = "init"
    /\ cleanup = FALSE
    /\ project \in InitialProjects
    /\ message = <<>>
    /\ messages = <<>>
    /\ fileTree = EmptyTree
    /\ socketError = "none"
    /\ currentFile = <<>>
    /\ openFiles = <<>>
    /\ webContainer = FALSE
    /\ boots = 0
    /\ fetches = 0
    /\ mounts = <<>>
    /\ mounted = EmptyTree
    /\ saves = NoSaves
    /\ sendRet = "none"
    /\ editRet = "none"
    /\ recvLog = <<>>
    /\ invoked = {}
    /\ observed = <<>>
    /\ dOut = JUndef
    /\ dDone = FALSE

Init ==
    /\ InitComponent
    /\ dRaw = <<>>

\* The body of the effect once project._id is known to be present: the
\* socket, the sandbox boot, the inbound handler (a closure of this render's
\* webContainer) and the project fetch.
EffectRun(ch, projectId, pendingFetches) ==
    LET init == initializeSocket(ch, projectId)
        reg == receiveMessage(Channel(init.socket, init.sockets), [wc |-> webContainer])
    IN  /\ socket' = init.socket
        /\ IF init.ret = 0
           THEN /\ sockets' = init.sockets
                /\ socketError' = "init"
                /\ boots' = boots
                /\ fetches' = pendingFetches
                /\ cleanup' = FALSE
           ELSE /\ sockets' = reg.sockets
                /\ socketError' = socketError
                /\ boots' = IF webContainer THEN boots ELSE boots + 1
                /\ fetches' = pendingFetches + 1
                /\ cleanup' = TRUE

\* useEffect(..., [project._id]) on mount.
Effect ==
    /\ lifecycle = "init"
    /\ lifecycle' = "open"
    /\ IF project = NoId
       THEN UNCHANGED <<socket, sockets, socketError, boots, fetches, cleanup>>
       ELSE /\ Len(sockets) < MaxSockets
            /\ EffectRun(Channel(socket, sockets), project, fetches)
    /\ UNCHANGED <<reconnectAttempts, emitted, project, message, messages, fileTree,
                   currentFile, openFiles, webContainer, mounts, mounted, saves, retVars, decVars, callVars>>

\* The project fetch answers: setProject, setFileTree; when project._id has
\* changed the effect's cleanup runs and then the effect again.
ProjectFetched(id, tree) ==
    /\ lifecycle = "open"
    /\ fetches > 0
    /\ project' = id
    /\ fileTree' = tree
    /\ IF id = project
       THEN /\ fetches' = fetches - 1
            /\ UNCHANGED <<socket, sockets, socketError, boots, cleanup>>
       ELSE /\ Len(sockets) < MaxSockets
            /\ EffectRun(disconnect(Channel(socket, sockets)), id, fetches - 1)
    /\ UNCHANGED <<reconnectAttempts, emitted, lifecycle, message, messages, currentFile, openFiles,
                   webContainer, mounts, mounted, saves, retVars, decVars, callVars>>

ProjectFetchFailed ==
    /\ lifecycle = "open"
    /\ fetches > 0
    /\ fetches' = fetches - 1
    /\ UNCHANGED <<chanVars, compVars, boots, mounts, mounted, saves, retVars, decVars, callVars>>

\* getWebContainer() settles: the container, or null when the boot failed.
ContainerBooted(ok) ==
    /\ lifecycle = "open"
    /\ boots > 0
    /\ boots' = boots - 1
    /\ webContainer' = ok
    /\ UNCHANGED <<chanVars, lifecycle, cleanup, project, message, messages, fileTree,
                   socketError, currentFile, openFiles, fetches, mounts, mounted, saves, retVars,
                   decVars, callVars>>

\* onChange of the input field.
Type(text) ==
    /\ lifecycle = "open"
    /\ message # text
    /\ message' = text
    /\ UNCHANGED <<chanVars, lifecycle, cleanup, project, messages, fileTree, socketError,
                   currentFile, openFiles, webContainer, asyncVars, retVars, decVars, callVars>>

\* A send that appends the message before it calls sendMessage, whatever
\* sendMessage returns then.
sendOptimistic ==
    /\ lifecycle = "open"
    /\ ~IsBlank(message)
    /\ Len(messages) < MaxTimeline
    /\ messages' = Append(messages, [sender |-> Me, message |-> message])
    /\ LET ch == Channel(socket, sockets)
           r == sendMessage(ch, emitted, [message |-> message, sender |-> Me])
           init == initializeSocket(ch, project)
       IN  IF r.ret
           THEN /\ emitted' = r.emitted
                /\ message' = <<>>
                /\ sendRet' = "true"
                /\ UNCHANGED <<socket, sockets, socketError>>
           ELSE /\ project # NoId => Len(sockets) < MaxSockets
                /\ emitted' = r.emitted
                /\ socketError' = "send"
                /\ socket' = init.socket
                /\ sockets' = init.sockets
                /\ sendRet' = "false"
                /\ UNCHANGED message
    /\ UNCHANGED <<reconnectAttempts, lifecycle, cleanup, project, fileTree, currentFile, openFiles,
                   webContainer, asyncVars, editRet, decVars, callVars>>

\* A send that makes a new socket when sendMessage returns false and sets
\* no error.
sendSilentFailure ==
    /\ lifecycle = "open"
    /\ ~IsBlank(message)
    /\ LET ch == Channel(socket, sockets)
           r == sendMessage(ch, emitted, [message |-> message, sender |-> Me])
           init == initializeSocket(ch, project)
       IN  IF r.ret
           THEN /\ Len(messages) < MaxTimeline
                /\ emitted' = r.emitted
                /\ messages' = Append(messages, [sender |-> Me, message |-> message])
                /\ message' = <<>>
                /\ sendRet' = "true"
                /\ UNCHANGED <<socket, sockets, socketError>>
           ELSE /\ project # NoId => Len(sockets) < MaxSockets
                /\ emitted' = r.emitted
                /\ socket' = init.socket
                /\ sockets' = init.sockets
                /\ sendRet' = "false"
                /\ UNCHANGED <<messages, message, socketError>>
    /\ UNCHANGED <<reconnectAttempts, lifecycle, cleanup, project, fileTree, currentFile, openFiles,
                   webContainer, asyncVars, editRet, decVars, callVars>>

send ==
    /\ lifecycle = "open"
    /\ ~IsBlank(message)
    /\ LET ch == Channel(socket, sockets)
           r == sendMessage(ch, emitted, [message |-> message, sender |-> Me])
           init == initializeSocket(ch, project)
       IN  IF r.ret
           THEN /\ Len(messages) < MaxTimeline
                /\ emitted' = r.emitted
                /\ messages' = Append(messages, [sender |-> Me, message |-> message])
                /\ message' = <<>>
                /\ sendRet' = "true"
                /\ UNCHANGED <<socket, sockets, socketError>>
           ELSE /\ project # NoId => Len(sockets) < MaxSockets
                /\ emitted' = r.emitted
                /\ socketError' = "send"
                /\ socket' = init.socket
                /\ sockets' = init.sockets
                /\ sendRet' = "false"
                /\ UNCHANGED <<messages, message>>
    /\ UNCHANGED <<reconnectAttempts, lifecycle, cleanup, project, fileTree, currentFile, openFiles,
                   webContainer, asyncVars, editRet, decVars, callVars>>

\* The Retry button, shown while socketError is set.
retryConnection ==
    /\ lifecycle = "open"
    /\ socketError # "none"
    /\ project # NoId => Len(sockets) < MaxSockets
    /\ LET init == initializeSocket(disconnect(Channel(socket, sockets)), project)
       IN  /\ socket' = init.socket
           /\ sockets' = init.sockets
    /\ socketError' = "none"
    /\ UNCHANGED <<reconnectAttempts, emitted, lifecycle, cleanup, project, message,
                   messages, fileTree, currentFile, openFiles, webContainer, asyncVars, retVars,
                   decVars, callVars>>

\* The component unmounts: the effect's cleanup, if it returned one.
Unmount ==
    /\ lifecycle = "open"
    /\ lifecycle' = "closed"
    /\ LET ch == IF cleanup THEN disconnect(Channel(socket, sockets))
                 ELSE Channel(socket, sockets)
       IN  /\ socket' = ch.socket
           /\ sockets' = ch.sockets
    /\ UNCHANGED <<reconnectAttempts, emitted, cleanup, project, message, messages,
                   fileTree, socketError, currentFile, openFiles, webContainer, asyncVars, retVars,
                   decVars, callVars>>

\* The workspace is opened again: a new component instance with fresh state;
\* the socket module keeps its state, the promises of the old instance are
\* dropped with it.
Remount ==
    /\ lifecycle = "closed"
    /\ lifecycle' = "init"
    /\ cleanup' = FALSE
    /\ project' \in InitialProjects
    /\ message' = <<>>
    /\ messages' = <<>>
    /\ fileTree' = EmptyTree
    /\ socketError' = "none"
    /\ currentFile' = <<>>
    /\ openFiles' = <<>>
    /\ webContainer' = FALSE
    /\ boots' = 0
    /\ fetches' = 0
    /\ mounts' = <<>>
    /\ sendRet' = "none"
    /\ editRet' = "none"
    /\ UNCHANGED <<chanVars, mounted, saves, decVars, callVars>>

(***************************************************************************)
(* The inbound handler of 'project-message' (Project.jsx 530-602) and the  *)
(* template mounts.  h is the closure the handler was created with.        *)
(***************************************************************************)
\* The branch the handler takes for data.
\* The branch taken when the phrases are looked for in data.message as it
\* came, without toLowerCase.
DirectiveOfCaseSensitive(data) ==
    IF data.sender # Ai
    THEN IF includes(data.message, reactPhrase) THEN "react"
         ELSE IF includes(data.message, expressPhrase) \/ includes(data.message, expressPhraseAn)
         THEN "express"
         ELSE "user"
    ELSE "ai"

\* The branch taken when the phrases are looked for whoever the sender is.
DirectiveOfAnySender(data) ==
    IF includes(toLowerCase(data.message), reactPhrase) THEN "react"
    ELSE IF \/ includes(toLowerCase(data.message), expressPhrase)
            \/ includes(toLowerCase(data.message), expressPhraseAn)
    THEN "express"
    ELSE IF data.sender # Ai THEN "user" ELSE "ai"

\* The branch taken when the express phrases are looked for before the
\* react phrase.
DirectiveOfExpressFirst(data) ==
    IF data.sender # Ai
    THEN IF \/ includes(toLowerCase(data.message), expressPhrase)
            \/ includes(toLowerCase(data.message), expressPhraseAn)
         THEN "express"
         ELSE IF includes(toLowerCase(data.message), reactPhrase) THEN "react"
         ELSE "user"
    ELSE "ai"

\* The branch taken when, for a message decoded to the flag, the word
\* express is looked for before the word react.
DirectiveOfFlagExpressFirst(data) ==
    IF data.sender # Ai
    THEN IF includes(toLowerCase(data.message), reactPhrase) THEN "react"
         ELSE IF \/ includes(toLowerCase(data.message), expressPhrase)
                 \/ includes(toLowerCase(data.message), expressPhraseAn)
         THEN "express"
         ELSE "user"
    ELSE IF Prop(sanitizeJsonString(data.message), kFileTree) = JTrue
         THEN IF includes(toLowerCase(data.message), wExpress) THEN "aiExpress"
              ELSE IF includes(toLowerCase(data.message), wReact) THEN "aiReact"
              ELSE "ai"
         ELSE IF /\ Truthy(Prop(sanitizeJsonString(data.message), kFileTree))
                 /\ Prop(sanitizeJsonString(data.message), kFileTree).t \in {"obj", "arr"}
         THEN "aiInline"
         ELSE "ai"

DirectiveOf(data) ==
    LET lowerMsg == toLowerCase(data.message) IN
    IF data.sender # Ai
    THEN IF includes(lowerMsg, reactPhrase) THEN "react"
         ELSE IF includes(lowerMsg, expressPhrase) \/ includes(lowerMsg, expressPhraseAn)
         THEN "express"
         ELSE "user"
    ELSE LET msg == sanitizeJsonString(data.message)
             tree == Prop(msg, kFileTree)
         IN  IF tree = JTrue
             THEN IF includes(lowerMsg, wReact) THEN "aiReact"
                  ELSE IF includes(lowerMsg, wExpress) THEN "aiExpress"
                  ELSE "ai"
             ELSE IF Truthy(tree) /\ tree.t \in {"obj", "arr"} THEN "aiInline"
             ELSE "ai"

\* The inline tree of an automated message: message.fileTree.
InlineTreeOf(data) == Prop(sanitizeJsonString(data.message), kFileTree)

\* The two, tabulated for the inbound events of the model.
DirectiveTable == [data \in Inbound |-> DirectiveOf(data)]
InlineTreeTable == [data \in Inbound |-> InlineTreeOf(data)]
Directive(data) == DirectiveTable[data]
InlineTree(data) == InlineTreeTable[data]

NoMount == [start |-> FALSE, tree |-> EmptyTree, origin |-> "none"]
StartMount(tree, origin) == [start |-> TRUE, tree |-> tree, origin |-> origin]

\* createReactApp / createExpressApp of the render that created the closure.
createReactApp(h) == IF ~h.wc THEN NoMount ELSE StartMount(basicReactApp, "react")
createExpressApp(h) == IF ~h.wc THEN NoMount ELSE StartMount(expressApp, "express")

\* The mount the handler starts.
HandlerMount(h, data) ==
    LET d == Directive(data) IN
    CASE d \in {"react", "aiReact"} -> createReactApp(h)
      [] d \in {"express", "aiExpress"} -> createExpressApp(h)
      [] d = "aiInline" ->
            IF h.wc
            THEN StartMount(InlineTree(data), "inline")
            ELSE NoMount
      [] OTHER -> NoMount

\* A handler that shows the progress message before the user's message.
HandlerMessagesProgressFirst(data) ==
    LET d == Directive(data) IN
    CASE d = "react" -> <<ThinkingReact, data>>
      [] d = "express" -> <<ThinkingExpress, data>>
      [] OTHER -> <<data>>

\* A handler that filters the echo of the user's own messages.
HandlerMessagesDropsOwn(data) ==
    LET d == Directive(data) IN
    CASE data.sender = Me -> <<>>
      [] d = "react" -> <<data, ThinkingReact>>
      [] d = "express" -> <<data, ThinkingExpress>>
      [] OTHER -> <<data>>

\* A handler that appends an automated message only when it has decoded to
\* a payload with a text.
HandlerMessagesDecodedOnly(data) ==
    LET d == Directive(data) IN
    CASE d = "react" -> <<data, ThinkingReact>>
      [] d = "express" -> <<data, ThinkingExpress>>
      [] data.sender = Ai /\ ~JSONparse(data.message).ok -> <<>>
      [] OTHER -> <<data>>

\* What the handler appends to the Timeline before it returns.
HandlerMessages(data) ==
    LET d == Directive(data) IN
    CASE d = "react" -> <<data, ThinkingReact>>
      [] d = "express" -> <<data, ThinkingExpress>>
      [] OTHER -> <<data>>

\* webContainer.mount(mt.tree) is called: the mounts so far, with this one.
Issued(ms, mt) ==
    IF mt.start
    THEN Append(ms, [tree |-> mt.tree, origin |-> mt.origin, status |-> "pending"])
    ELSE ms

\* A 'project-message' event arrives on socket i.
Receive(i, data) ==
    /\ sockets[i].phase = "connected"
    /\ sockets[i].handlers # <<>>
    /\ Len(messages) < MaxTimeline
    /\ HandlerMount(sockets[i].handlers[1], data).start => Len(mounts) < MaxMounts
    /\ mounts' = Issued(mounts, HandlerMount(sockets[i].handlers[1], data))
    /\ messages' = messages \o HandlerMessages(data)
    /\ observed' = Append(observed, data)
    /\ UNCHANGED <<chanVars, lifecycle, cleanup, project, message, fileTree, socketError,
                   currentFile, openFiles, webContainer, boots, fetches, mounted, saves, retVars,
                   decVars, recvLog, invoked>>

\* A settling that writes the outcome over the last record of the Timeline
\* (the progress message) instead of appending it.
MountSettledOverwrites(k, ok) ==
    /\ lifecycle = "open"
    /\ mounts[k].status = "pending"
    /\ mounts' = [mounts EXCEPT ![k].status = IF ok THEN "ok" ELSE "failed"]
    /\ mounted' = IF ok THEN mounts[k].tree ELSE mounted
    /\ fileTree' = IF ok THEN mounts[k].tree ELSE fileTree
    /\ messages' =
          IF mounts[k].origin = "inline" \/ messages = <<>> THEN messages
          ELSE [messages EXCEPT ![Len(messages)] = IF ok THEN ReactCreated ELSE ReactFailed]
    /\ UNCHANGED <<chanVars, lifecycle, cleanup, project, message, socketError,
                   currentFile, openFiles, webContainer, boots, fetches, saves, retVars,
                   decVars, callVars>>

\* A settling that reports nothing when the tree that was mounted is the
\* tree the component already has.
MountSettledQuietRepeat(k, ok) ==
    /\ lifecycle = "open"
    /\ mounts[k].status = "pending"
    /\ mounts' = [mounts EXCEPT ![k].status = IF ok THEN "ok" ELSE "failed"]
    /\ mounted' = IF ok THEN mounts[k].tree ELSE mounted
    /\ fileTree' = IF ok THEN mounts[k].tree ELSE fileTree
    /\ messages' =
          CASE ok /\ mounts[k].tree = fileTree -> messages
            [] mounts[k].origin = "react" ->
                  Append(messages, IF ok THEN ReactCreated ELSE ReactFailed)
            [] mounts[k].origin = "express" ->
                  Append(messages, IF ok THEN ExpressCreated ELSE ExpressFailed)
            [] OTHER -> messages
    /\ UNCHANGED <<chanVars, lifecycle, cleanup, project, message, socketError,
                   currentFile, openFiles, webContainer, boots, fetches, saves, retVars, decVars, callVars>>

\* webContainer.mount(...) of mount k settles: .then or .catch.
MountSettled(k, ok) ==
    /\ lifecycle = "open"
    /\ mounts[k].status = "pending"
    /\ mounts' = [mounts EXCEPT ![k].status = IF ok THEN "ok" ELSE "failed"]
    /\ mounted' = IF ok THEN mounts[k].tree ELSE mounted
    /\ fileTree' = IF ok THEN mounts[k].tree ELSE fileTree
    /\ messages' =
          CASE mounts[k].origin = "react" ->
                  Append(messages, IF ok THEN ReactCreated ELSE ReactFailed)
            [] mounts[k].origin = "express" ->
                  Append(messages, IF ok THEN ExpressCreated ELSE ExpressFailed)
            [] OTHER -> messages
    /\ UNCHANGED <<chanVars, lifecycle, cleanup, project, message, socketError,
                   currentFile, openFiles, webContainer, boots, fetches, saves, retVars, decVars, callVars>>

(***************************************************************************)
(* The file explorer and the editor (Project.jsx 739-840).                 *)
(***************************************************************************)
Range(seq) == {seq[i] : i \in 1..Len(seq)}

\* The entries the explorer offers: every root key, and dir/file for every
\* root key whose node has a directory.
ExplorerPaths(ft) ==
    Range(ObjectKeys(ft))
    \cup UNION {{dir \o <<SLASH>> \o file :
                    file \in Range(ObjectKeys(Prop(Prop(ft, dir), kDirectory)))} :
                dir \in {k \in Range(ObjectKeys(ft)) : Truthy(Prop(Prop(ft, k), kDirectory))}}

\* [...new Set([...openFiles, file])]
Opened(files, file) == IF file \in Range(files) THEN files ELSE Append(files, file)

\* A button of the explorer.
SelectFile(path) ==
    /\ lifecycle = "open"
    /\ path \in ExplorerPaths(fileTree)
    /\ currentFile # path
    /\ currentFile' = path
    /\ openFiles' = Opened(openFiles, path)
    /\ UNCHANGED <<chanVars, lifecycle, cleanup, project, message, messages, fileTree,
                   socketError, webContainer, asyncVars, retVars, decVars, callVars>>

\* A tab of the editor.
SelectTab(file) ==
    /\ lifecycle = "open"
    /\ file \in Range(openFiles)
    /\ currentFile # file
    /\ currentFile' = file
    /\ UNCHANGED <<chanVars, lifecycle, cleanup, project, message, messages, fileTree,
                   socketError, openFiles, webContainer, asyncVars, retVars, decVars, callVars>>

\* The nested edit without ...fileTree[dir].directory: the directory is
\* built from the edited file alone.
NestedEditLosesSiblings(ft, dir, file, updatedContent) ==
    LET node == Prop(ft, dir)
        directory == JObj(<<Member(file, FileLeaf(updatedContent))>>)
    IN  JObj(Put(Spread(ft), dir, JObj(Put(Spread(node), kDirectory, directory))))

\* The tree onBlur builds for the nested path dir/file.
NestedEdit(ft, dir, file, updatedContent) ==
    LET node == Prop(ft, dir)
        directory == JObj(Put(Spread(Prop(node, kDirectory)), file, FileLeaf(updatedContent)))
    IN  JObj(Put(Spread(ft), dir, JObj(Put(Spread(node), kDirectory, directory))))

\* The tree onBlur builds for a top-level file.
TopLevelEdit(ft, file, updatedContent) ==
    JObj(Put(Spread(ft), file, FileLeaf(updatedContent)))

\* onBlur with fileTree[dir]?.directory: nothing is raised for a missing
\* node, the directory is created.
onBlurResultCreatesDirectory(ft, file, updatedContent) ==
    LET segs == split(file, SLASH) IN
    IF includes(file, <<SLASH>>)
    THEN [threw |-> FALSE, ft |-> NestedEdit(ft, segs[1], segs[2], updatedContent)]
    ELSE [threw |-> FALSE, ft |-> TopLevelEdit(ft, file, updatedContent)]

\* onBlur for the open file: [threw, ft].  Reading .directory of a missing
\* (undefined) or null node is a TypeError, raised before any state is set.
onBlurResult(ft, file, updatedContent) ==
    LET segs == split(file, SLASH) IN
    IF includes(file, <<SLASH>>)
    THEN IF Prop(ft, segs[1]).t \in {"undefined", "null"}
         THEN [threw |-> TRUE, ft |-> ft]
         ELSE [threw |-> FALSE, ft |-> NestedEdit(ft, segs[1], segs[2], updatedContent)]
    ELSE [threw |-> FALSE, ft |-> TopLevelEdit(ft, file, updatedContent)]

\* saveFileTree(ft): the calls made so far, with this one: the PUT carries
\* { projectId, fileTree }.
saveFileTree(calls, projectId, ft) ==
    IF projectId = NoId THEN calls
    ELSE [calls |-> calls.calls + 1, last |-> [projectId |-> projectId, fileTree |-> ft],
          pending |-> calls.pending + 1, failed |-> calls.failed]

\* An editor that takes no edit while a mount is in flight.
onBlurWhenNoMount(updatedContent) ==
    /\ lifecycle = "open"
    /\ currentFile # <<>>
    /\ \A k \in 1..Len(mounts) : mounts[k].status # "pending"
    /\ LET r == onBlurResult(fileTree, currentFile, updatedContent) IN
       IF r.threw
       THEN /\ editRet' = "TypeError"
            /\ UNCHANGED <<fileTree, saves>>
       ELSE /\ project # NoId => saves.calls < MaxSaves
            /\ editRet' = "ok"
            /\ fileTree' = r.ft
            /\ saves' = saveFileTree(saves, project, r.ft)
    /\ UNCHANGED <<chanVars, lifecycle, cleanup, project, message, messages, socketError,
                   currentFile, openFiles, webContainer, boots, fetches, mounts, mounted, sendRet,
                   decVars, callVars>>

onBlur(updatedContent) ==
    /\ lifecycle = "open"
    /\ currentFile # <<>>
    /\ LET r == onBlurResult(fileTree, currentFile, updatedContent) IN
       IF r.threw
       THEN /\ editRet' = "TypeError"
            /\ UNCHANGED <<fileTree, saves>>
       ELSE /\ project # NoId => saves.calls < MaxSaves
            /\ editRet' = "ok"
            /\ fileTree' = r.ft
            /\ saves' = saveFileTree(saves, project, r.ft)
    /\ UNCHANGED <<chanVars, lifecycle, cleanup, project, message, messages, socketError,
                   currentFile, openFiles, webContainer, boots, fetches, mounts, mounted, sendRet,
                   decVars, callVars>>

\* A settling of the PUT whose .catch issues the call again.
SaveSettledRetries(ok) ==
    /\ saves.pending > 0
    /\ saves' = IF ok THEN [saves EXCEPT !.pending = @ - 1]
                ELSE [saves EXCEPT !.failed = @ + 1, !.calls = @ + 1]
    /\ UNCHANGED <<chanVars, compVars, boots, fetches, mounts, mounted, retVars, decVars,
                   callVars>>

\* The PUT of saveFileTree is answered: .then logs res.data, .catch logs err.
SaveSettled(ok) ==
    /\ saves.pending > 0
    /\ saves' = IF ok THEN [saves EXCEPT !.pending = @ - 1]
                ELSE [saves EXCEPT !.pending = @ - 1, !.failed = @ + 1]
    /\ UNCHANGED <<chanVars, compVars, boots, fetches, mounts, mounted, retVars, decVars,
                   callVars>>

(***************************************************************************)
(* Specifications.                                                         *)
(***************************************************************************)
SocketEvents ==
    \E i \in 1..Len(sockets) : ConnectError(i) \/ Connect(i) \/ ConnectionLost(i)

Next ==
    \/ Effect
    \/ \E id \in FetchedProjects, tree \in SeedTrees : ProjectFetched(id, tree)
    \/ ProjectFetchFailed
    \/ \E ok \in BOOLEAN : ContainerBooted(ok)
    \/ \E text \in LocalTexts : Type(text)
    \/ send
    \/ retryConnection
    \/ Unmount
    \/ Remount
    \/ SocketEvents
    \/ \E i \in 1..Len(sockets), data \in Inbound : Receive(i, data)
    \/ \E k \in 1..Len(mounts), ok \in BOOLEAN : MountSettled(k, ok)
    \/ \E path \in ExplorerPaths(fileTree) : SelectFile(path)
    \/ \E file \in Range(openFiles) : SelectTab(file)
    \/ \E c \in EditContents : onBlur(c)
    \/ \E ok \in BOOLEAN : SaveSettled(ok)

Spec == Init /\ [][Next]_vars

\* The channel: every action that writes the socket module's state, project,
\* message, socketError, lifecycle or cleanup.  The other actions (Receive,
\* MountSettled, ContainerBooted, ProjectFetchFailed, SelectFile, SelectTab,
\* onBlur) leave all of these unchanged.
NextChannel ==
    \/ Effect
    \/ \E id \in FetchedProjects : ProjectFetched(id, EmptyTree)
    \/ \E text \in LocalTexts : Type(text)
    \/ send
    \/ retryConnection
    \/ Unmount
    \/ Remount
    \/ SocketEvents

SpecChannel == Init /\ [][NextChannel]_vars

\* The socket module alone, under its own client.
NextSocket ==
    \/ \E projectId \in InitialProjects : CallInitialize(projectId)
    \/ CallReceive
    \/ CallDisconnect
    \/ \E i \in 1..Len(sockets) : Connect(i)
    \/ \E i \in 1..Len(sockets) : Deliver(i)

SpecSocket == Init /\ [][NextSocket]_vars

\* The sandbox mounts on a channel that connects and stays connected: the
\* effect (run again when the fetch returns another project id, which is
\* what gives the inbound handler a booted container), the boot, inbound
\* directives and inline trees, and the settling of mounts.  The actions
\* left out write none of mounts, mounted, webContainer; the editor's
\* actions are in SpecEdit.
MountInbound ==
    {[sender |-> Peer, message |-> tHi], [sender |-> Peer, message |-> tReactCmd],
     [sender |-> Peer, message |-> tExpressCmd], [sender |-> Ai, message |-> aiInlineTree],
     [sender |-> Ai, message |-> aiReactPhrase]}

NextMount ==
    \/ Effect
    \/ \E id \in FetchedProjects : ProjectFetched(id, EmptyTree)
    \/ \E ok \in BOOLEAN : ContainerBooted(ok)
    \/ \E i \in 1..Len(sockets) : Connect(i)
    \/ \E i \in 1..Len(sockets), data \in MountInbound : Receive(i, data)
    \/ \E k \in 1..Len(mounts), ok \in BOOLEAN : MountSettled(k, ok)

SpecMount == Init /\ [][NextMount]_vars

\* The Timeline of one opened workspace: everything that writes messages
\* (send, the inbound handler, the settling of mounts) with the retry of
\* the connection, which a failed send makes available.  Unmount and
\* Remount are left out: the Timeline of a workspace that is opened again
\* is another one.
TimelineInbound ==
    {[sender |-> Me, message |-> tHi], [sender |-> Peer, message |-> tReactCmd]}

NextTimeline ==
    \/ Effect
    \/ \E id \in FetchedProjects : ProjectFetched(id, EmptyTree)
    \/ \E ok \in BOOLEAN : ContainerBooted(ok)
    \/ Type(tHi)
    \/ send
    \/ retryConnection
    \/ \E i \in 1..Len(sockets) : Connect(i)
    \/ \E i \in 1..Len(sockets), data \in TimelineInbound : Receive(i, data)
    \/ \E k \in 1..Len(mounts), ok \in BOOLEAN : MountSettled(k, ok)

SpecTimeline == Init /\ [][NextTimeline]_vars

\* The inbound handler under events of every kind: a user's own message, a
\* directive of another user, an automated message that is not JSON and an
\* automated message with an inline tree, each with the handler's closure
\* holding a container or not, and with mounts that succeed or fail.
HandlerInbound ==
    {[sender |-> Me, message |-> tHi], [sender |-> Peer, message |-> tReactCmd],
     [sender |-> Ai, message |-> tHi], [sender |-> Ai, message |-> aiInlineTree]}

NextHandler ==
    \/ Effect
    \/ \E id \in FetchedProjects : ProjectFetched(id, EmptyTree)
    \/ \E ok \in BOOLEAN : ContainerBooted(ok)
    \/ \E i \in 1..Len(sockets) : Connect(i)
    \/ \E i \in 1..Len(sockets), data \in HandlerInbound : Receive(i, data)
    \/ \E k \in 1..Len(mounts), ok \in BOOLEAN : MountSettled(k, ok)

SpecHandler == Init /\ [][NextHandler]_vars

\* The recognizer under messages of a user that hold the react phrase and
\* an express phrase, in either order.
RecognizerInbound ==
    {[sender |-> Peer, message |-> tReactThenExpress],
     [sender |-> Peer, message |-> tExpressThenReact]}

NextRecognizer ==
    \/ Effect
    \/ \E id \in FetchedProjects : ProjectFetched(id, EmptyTree)
    \/ \E ok \in BOOLEAN : ContainerBooted(ok)
    \/ \E i \in 1..Len(sockets) : Connect(i)
    \/ \E i \in 1..Len(sockets), data \in RecognizerInbound : Receive(i, data)
    \/ \E k \in 1..Len(mounts), ok \in BOOLEAN : MountSettled(k, ok)

SpecRecognizer == Init /\ [][NextRecognizer]_vars

\* Chat and editing beside the mounts: the tree is seeded, a.txt is opened
\* and edited, 'hi' is typed and sent, a directive arrives, the sandbox
\* boots, and mounts succeed or fail.
DecoupledInbound == {[sender |-> Peer, message |-> tReactCmd]}

NextDecoupled ==
    \/ Effect
    \/ \E id \in FetchedProjects : ProjectFetched(id, SeedA)
    \/ ContainerBooted(TRUE)
    \/ \E i \in 1..Len(sockets) : Connect(i)
    \/ Type(tHi)
    \/ send
    \/ \E i \in 1..Len(sockets), data \in DecoupledInbound : Receive(i, data)
    \/ \E k \in 1..Len(mounts), ok \in BOOLEAN : MountSettled(k, ok)
    \/ SelectFile(nATxt)
    \/ \E c \in EditContents : onBlur(c)

SpecDecoupled == Init /\ [][NextDecoupled]_vars

\* The automated branch of the handler under messages that decode to the
\* flag fileTree: true, with both the words express and react, the word
\* express alone, or neither in them.
FlagInbound ==
    {[sender |-> Ai, message |-> t] : t \in {aiFlagBoth, aiFlagExpress, aiFlagNeither}}

NextFlag ==
    \/ Effect
    \/ \E id \in FetchedProjects : ProjectFetched(id, EmptyTree)
    \/ ContainerBooted(TRUE)
    \/ \E i \in 1..Len(sockets) : Connect(i)
    \/ \E i \in 1..Len(sockets), data \in FlagInbound : Receive(i, data)
    \/ \E k \in 1..Len(mounts), ok \in BOOLEAN : MountSettled(k, ok)

SpecFlag == Init /\ [][NextFlag]_vars

\* The explorer and the editor: the tree is seeded (and replaced) by the
\* project fetch, files are opened, chosen by their tabs and edited.
NextEdit ==
    \/ Effect
    \/ \E id \in FetchedProjects, tree \in SeedTrees : ProjectFetched(id, tree)
    \/ \E path \in ExplorerPaths(fileTree) : SelectFile(path)
    \/ \E file \in Range(openFiles) : SelectTab(file)
    \/ \E c \in EditContents : onBlur(c)

SpecEdit == Init /\ [][NextEdit]_vars

\* The persistence of edits: the tree is seeded by the fetch of the project
\* that is open, a file is opened and edited, and the PUT of each edit is
\* answered or fails.
NextSave ==
    \/ Effect
    \/ ProjectFetched(project, SeedA)
    \/ \E path \in ExplorerPaths(fileTree) : SelectFile(path)
    \/ \E c \in EditContents : onBlur(c)
    \/ \E ok \in BOOLEAN : SaveSettled(ok)

SpecSave == Init /\ [][NextSave]_vars

\* The decoder alone: every input put together from at most MaxFrags
\* fragments, and one application of sanitizeJsonString to it.
InitDecode ==
    /\ InitComponent
    /\ project = NoId
    /\ dRaw \in RawInputs

Decode ==
    /\ ~dDone
    /\ dDone' = TRUE
    /\ dOut' = sanitizeJsonString(dRaw)
    /\ UNCHANGED <<chanVars, compVars, asyncVars, retVars, dRaw, callVars>>

NextDecode == Decode

SpecDecode == InitDecode /\ [][NextDecode]_vars

(***************************************************************************)
(* Properties.                                                             *)
(***************************************************************************)
\* A value sanitizeJsonString may hand to the Timeline: an object whose text
\* is a string.
IsDecodedContent(v) == v.t = "obj" /\ Has(v, kText) /\ Get(v, kText).t = "str"

\* C1: for every input, sanitizeJsonString returns a record that carries
\* displayable text, also when the input parses to a number, null, a bare
\* string or an array.
C1_DecodeReturnsContent == dDone => IsDecodedContent(dOut)

\* C2: when a mount is requested while an earlier one is still pending, then
\* whatever the order in which the two complete, once both have completed
\* the sandbox and fileTree hold the tree of the later request.
C2_LastRequestWins ==
    [][\A k, l \in 1..Len(mounts) :
          (/\ Len(mounts') = Len(mounts)
           /\ k < l
           /\ l = Len(mounts)
           /\ mounts[k].status = "pending"
           /\ mounts'[k].status = "ok"
           /\ mounts[l].status = "ok"
           /\ \A j \in 1..Len(mounts) : mounts'[j].status # "pending")
          => (mounted' = mounts[l].tree /\ fileTree' = mounts[l].tree)]_vars

\* An onBlur of the editor: the one step that, with the workspace open and no
\* fetch or mount settling, changes fileTree, the persistence calls or editRet.
onBlurStep ==
    /\ lifecycle = "open"
    /\ lifecycle' = "open"
    /\ project' = project
    /\ fetches' = fetches
    /\ mounts' = mounts
    /\ currentFile # <<>>
    /\ fileTree' # fileTree \/ saves'.calls # saves.calls \/ editRet' # editRet

IsFileLeaf(node) == node.t = "obj" /\ Has(node, kFile) /\ ~Has(node, kDirectory)
IsDirectory(node) ==
    node.t = "obj" /\ Has(node, kDirectory) /\ ~Has(node, kFile)
    /\ Get(node, kDirectory).t = "obj"

\* The open file is dir/name.
NestedOpen == includes(currentFile, <<SLASH>>)
OpenDir == split(currentFile, SLASH)[1]
OpenName == split(currentFile, SLASH)[2]

\* C3: an edit of dir/name, dir a directory that holds the leaf name, changes
\* the contents of that leaf only: the root keeps its entries and every
\* entry but dir as it was, dir keeps its entries and every entry but name as
\* it was, and name is a file leaf again.
C3_EditChangesOnlyTheLeaf ==
    [][(/\ onBlurStep
        /\ NestedOpen
        /\ IsDirectory(Prop(fileTree, OpenDir))
        /\ IsFileLeaf(Prop(Prop(Prop(fileTree, OpenDir), kDirectory), OpenName)))
       => LET before == Prop(Prop(fileTree, OpenDir), kDirectory)
              after == Prop(Prop(fileTree', OpenDir), kDirectory)
          IN  /\ ObjectKeys(fileTree') = ObjectKeys(fileTree)
              /\ \A k \in Range(ObjectKeys(fileTree)) \ {OpenDir} :
                     Prop(fileTree', k) = Prop(fileTree, k)
              /\ IsDirectory(Prop(fileTree', OpenDir))
              /\ ObjectKeys(after) = ObjectKeys(before)
              /\ \A n \in Range(ObjectKeys(before)) \ {OpenName} :
                     Prop(after, n) = Prop(before, n)
              /\ \E c \in EditContents : Prop(after, OpenName) = FileLeaf(c)]_vars

\* src/App.js of the seeded tree has been edited: its new contents, and
\* beside it what the seed had.
C3_Witness ==
    /\ editRet = "ok"
    /\ currentFile = nSrc \o <<SLASH>> \o nAppJs
    /\ saves.calls = 1
    /\ fileTree =
          JObj(<< Member(nSrc, Directory(<< Member(nAppJs, FileLeaf(<<"x">>)),
                                            Member(nIndexJs, FileLeaf(<<"b">>)) >>)),
                  Member(nATxt, FileLeaf(<<"c">>)) >>)

\* C4: an edit of dir/name with no entry dir in the tree fails with an error:
\* fileTree is unchanged (no directory is created) and the persistence is not
\* called.
C4_MissingDirectoryFails ==
    [][(/\ onBlurStep
        /\ NestedOpen
        /\ Prop(fileTree, OpenDir) = JUndef)
       => (editRet' = "TypeError" /\ fileTree' = fileTree /\ saves' = saves)]_vars

\* The edit of src/App.js has failed on a tree without src.
C4_Witness ==
    /\ editRet = "TypeError"
    /\ currentFile = nSrc \o <<SLASH>> \o nAppJs
    /\ Prop(fileTree, nSrc) = JUndef
    /\ saves = NoSaves

\* C5: an edit of dir/name with dir a file leaf fails with an error and
\* leaves fileTree unchanged.
C5_FileLeafDirectoryFails ==
    [][(/\ onBlurStep
        /\ NestedOpen
        /\ IsFileLeaf(Prop(fileTree, OpenDir)))
       => (editRet' = "TypeError" /\ fileTree' = fileTree)]_vars

\* C6: reconnectAttempts never exceeds MAX_RECONNECT_ATTEMPTS.
C6_AttemptsWithinCap == reconnectAttempts <= MAX_RECONNECT_ATTEMPTS

\* The client of the current socket has given up after MAX_RECONNECT_ATTEMPTS
\* or more connect errors in a row.
Exhausted ==
    /\ socket # 0
    /\ sockets[socket].phase = "stopped"
    /\ reconnectAttempts >= MAX_RECONNECT_ATTEMPTS

\* retryConnection: the one step that clears socketError while the workspace
\* stays open.
ManualResetStep ==
    /\ lifecycle = "open"
    /\ lifecycle' = "open"
    /\ socketError # "none"
    /\ socketError' = "none"

\* send, when sendMessage has returned false.
FailedSendStep ==
    /\ lifecycle = "open"
    /\ lifecycle' = "open"
    /\ project' = project
    /\ ~IsBlank(message)
    /\ message' = message
    /\ emitted' = emitted
    /\ sendRet' = "false"
    /\ socketError' = "send"

C8_ManualResetZeroesCounter == [][ManualResetStep => reconnectAttempts' = 0]_vars

\* C9: in every state and for every payload, sendMessage returns true exactly
\* when the channel is Connected; it then emits one event, the payload on the
\* current socket, and otherwise emits nothing.
C9_SendContract ==
    \A text \in LocalTexts :
        LET data == [message |-> text, sender |-> Me]
            r == sendMessage(Channel(socket, sockets), emitted, data)
        IN  /\ r.ret <=> ChannelPhase = "Connected"
            /\ r.ret => r.emitted = Append(emitted, [sock |-> socket, data |-> data])
            /\ ~r.ret => r.emitted = emitted

\* A send has gone out on a connected socket, the connection was then lost
\* and the next send has returned false: one event emitted in all.
C9_Witness ==
    /\ sendRet = "false"
    /\ Len(emitted) = 1
    /\ Len(sockets) = 2
    /\ sockets[1].phase = "closed"

\* C10: at most one socket has not been disconnected.
C10_AtMostOneLive ==
    Cardinality({i \in 1..Len(sockets) : sockets[i].phase # "closed"}) <= 1

\* A failed send and then retryConnection have each closed the socket they
\* found and created another.
C10_Witness ==
    /\ Len(sockets) = 3
    /\ sockets[1].phase = "closed"
    /\ sockets[2].phase = "closed"
    /\ sockets[3].phase = "connected"
    /\ socket = 3
    /\ sendRet = "false"
    /\ socketError = "none"

\* C11: a receiveMessage call made while no socket exists (before the first
\* initializeSocket or after disconnect) returns false and registers
\* nothing: its callback is held by no socket, of the sockets created
\* afterwards either, and no socket ever invokes it.
C11_NoChannelRegistersNothing ==
    \A n \in 1..Len(recvLog) :
        ~recvLog[n].live =>
            /\ ~recvLog[n].ret
            /\ \A i \in 1..Len(sockets) :
                   \A k \in 1..Len(sockets[i].handlers) : sockets[i].handlers[k].id # n
            /\ n \notin invoked

\* A call was refused, a later one was registered on a socket created after
\* it, and that socket has delivered an event.
C11_Witness ==
    \E n \in 1..Len(recvLog), m \in 1..Len(recvLog) :
        /\ n < m
        /\ ~recvLog[n].live
        /\ recvLog[m].ret
        /\ m \in invoked

\* A parsed payload of the wire shape: an object with a string text.
IsWirePayload(v) == v.t = "obj" /\ Has(v, kText) /\ Get(v, kText).t = "str"

\* C12: when JSON.parse is reached (no template marker) and succeeds on a
\* payload of the wire shape, the result carries the payload's text, and
\* with it the payload's fileTree when that is a map (text with tree) or a
\* boolean (tree-presence flag); it carries the text in the other cases too.
C12_StrictParseResult ==
    (dDone /\ ~TemplateMarker(dRaw)) =>
        \A parsed \in {JSONparse(dRaw)} :
            (parsed.ok /\ IsWirePayload(parsed.v)) =>
                /\ dOut.t = "obj"
                /\ Prop(dOut, kText) = Get(parsed.v, kText)
                /\ Prop(parsed.v, kFileTree).t \in {"obj", "true", "false"}
                      => Prop(dOut, kFileTree) = Prop(parsed.v, kFileTree)

\* A well-formed payload with a text and a non-empty fileTree map has been
\* decoded.
C12_Witness ==
    /\ dDone
    /\ ~TemplateMarker(dRaw)
    /\ JSONparse(dRaw).ok
    /\ IsWirePayload(JSONparse(dRaw).v)
    /\ Prop(JSONparse(dRaw).v, kFileTree).t = "obj"
    /\ Prop(JSONparse(dRaw).v, kFileTree).a # <<>>
    /\ Prop(dOut, kFileTree) = Prop(JSONparse(dRaw).v, kFileTree)

\* The pattern finds a text with a non-empty value in the input.
TextLocated(raw) == textMatch(raw).matched /\ textMatch(raw).g # <<>>

\* C13: when JSON.parse is reached and fails, and the pattern finds a text
\* with a non-empty value (the input may end inside the text's string), the
\* result is the text alone: the captured characters with \" and \n
\* replaced, so that no backslash followed by n is left, and not the
\* failure excerpt.
C13_RecoversText ==
    (dDone /\ ~TemplateMarker(dRaw) /\ ~JSONparse(dRaw).ok /\ TextLocated(dRaw)) =>
        /\ dOut = TextOnly(Get(dOut, kText).s)
        /\ Get(dOut, kText).s = Unescape(textMatch(dRaw).g)
        /\ Len(Get(dOut, kText).s) <= Len(textMatch(dRaw).g)
        /\ ~includes(Get(dOut, kText).s, <<BSL, "n">>)
        /\ ~StartsWithAt(Get(dOut, kText).s, FailedMarker, 1)

\* An input that ends inside the text's string, with an escaped line feed
\* in it, has been decoded.
C13_Witness ==
    /\ dDone
    /\ ~TemplateMarker(dRaw)
    /\ ~JSONparse(dRaw).ok
    /\ TextLocated(dRaw)
    /\ includes(textMatch(dRaw).g, <<BSL, "n">>)
    /\ textMatch(dRaw).g = SubSeq(dRaw, Len(dRaw) - Len(textMatch(dRaw).g) + 1, Len(dRaw))
    /\ ~includes(textMatch(dRaw).g, <<Q>>)
    /\ includes(Get(dOut, kText).s, <<NL>>)

IsPrefix(p, s) == Len(p) <= Len(s) /\ p = SubSeq(s, 1, Len(p))

\* JSON.parse is reached and throws, and the pattern finds no text.
NothingLocated(raw) == ~TemplateMarker(raw) /\ ~JSONparse(raw).ok /\ ~TextLocated(raw)

\* The text shown for an input that could not be read: the marker, an
\* excerpt e of the input (followed by dots or not), the closing fence.
IsFailureText(t, e) ==
    t = FailedMarker \o e \o FenceEnd \/ t = FailedMarker \o e \o Ellipsis \o FenceEnd

\* C14 as stated: whenever JSON.parse is reached and throws and the pattern
\* finds no text, the result is the failure text with an excerpt that is a
\* prefix of the input of at most ExcerptMax characters, the whole input
\* when that is no longer.
C14_AlwaysExcerpt ==
    (dDone /\ NothingLocated(dRaw)) =>
        /\ dOut = TextOnly(Get(dOut, kText).s)
        /\ \E n \in 0..ExcerptMax :
               /\ n <= Len(dRaw)
               /\ Len(dRaw) <= ExcerptMax => n = Len(dRaw)
               /\ IsFailureText(Get(dOut, kText).s, SubSeq(dRaw, 1, n))

\* C14, amended: when JSON.parse is reached and throws and the pattern finds
\* no text, an input with a "fileTree" key yields the fixed notice with
\* fileTree true; every other input yields the failure text, whose excerpt
\* is the whole input when that has at most ExcerptMax characters and else
\* its first ExcerptMax characters followed by three dots.
C14_ExcerptUnlessFileTree ==
    (dDone /\ NothingLocated(dRaw)) =>
        IF includes(dRaw, Quoted(kFileTree))
        THEN dOut = TextAndFlag(StructureText)
        ELSE /\ dOut = TextOnly(Get(dOut, kText).s)
             /\ Get(dOut, kText).s =
                    IF Len(dRaw) <= ExcerptMax
                    THEN FailedMarker \o dRaw \o FenceEnd
                    ELSE FailedMarker \o SubSeq(dRaw, 1, ExcerptMax) \o <<".", ".", ".">>
                             \o FenceEnd

\* An input of more than ExcerptMax characters, with no text and no
\* "fileTree" key, has been decoded to the failure text.
C14_Witness ==
    /\ dDone
    /\ NothingLocated(dRaw)
    /\ ~includes(dRaw, Quoted(kFileTree))
    /\ Len(dRaw) > ExcerptMax
    /\ StartsWithAt(Get(dOut, kText).s, FailedMarker, 1)

\* C15 as stated: an input with the template marker yields fileTree true
\* together with the payload's own text, where the payload is well-formed
\* and has one.
C15_MarkerKeepsPayloadText ==
    (dDone /\ TemplateMarker(dRaw) /\ JSONparse(dRaw).ok /\ IsWirePayload(JSONparse(dRaw).v)) =>
        dOut = TextAndFlag(Get(JSONparse(dRaw).v, kText).s)

\* C15, amended: the template marker is looked for first and decides alone:
\* an input with it yields fileTree true with the fixed text of the React
\* notice, whatever JSON.parse or the pattern would make of the input, a
\* well-formed payload with a fileTree map included.
C15_MarkerWinsWithFixedText ==
    (dDone /\ TemplateMarker(dRaw)) => dOut = TextAndFlag(ReactFilesText)

\* A well-formed payload with a text, a fileTree map and the template
\* marker has been decoded to the flag.
C15_Witness ==
    /\ dDone
    /\ TemplateMarker(dRaw)
    /\ JSONparse(dRaw).ok
    /\ IsWirePayload(JSONparse(dRaw).v)
    /\ Prop(JSONparse(dRaw).v, kFileTree).t = "obj"
    /\ Prop(dOut, kFileTree) = JTrue

\* A step of the inbound handler: it is run with one more event.
ReceiveStep == Len(observed') = Len(observed) + 1

\* The event the handler of this step was called with.
Received == observed'[Len(observed')]

\* The handler that is called has a booted container in its closure.
HandlerHasContainer ==
    \E i \in 1..Len(sockets) :
        sockets[i].phase = "connected" /\ sockets[i].handlers # <<>> /\ sockets[i].handlers[1].wc

HasTriggerPhrase(text) ==
    \/ includes(toLowerCase(text), reactPhrase)
    \/ includes(toLowerCase(text), expressPhrase)
    \/ includes(toLowerCase(text), expressPhraseAn)

PendingMount(tree, origin) == [tree |-> tree, origin |-> origin, status |-> "pending"]

\* C16: for an inbound message of a sender other than the automated one, a
\* text with the react phrase in it, in any letter case and anywhere in the
\* text, is handled as the react directive (the message, then the progress
\* message, and the template's mount when the handler has a container); a
\* text with no trigger phrase is appended alone and starts nothing.
C16_UserTriggerPhrase ==
    [][(ReceiveStep /\ Received.sender # Ai) =>
          /\ includes(toLowerCase(Received.message), reactPhrase) =>
                /\ messages' = messages \o <<Received, ThinkingReact>>
                /\ mounts' = IF HandlerHasContainer
                             THEN Append(mounts, PendingMount(basicReactApp, "react"))
                             ELSE mounts
          /\ ~HasTriggerPhrase(Received.message) =>
                /\ messages' = Append(messages, Received)
                /\ mounts' = mounts]_vars

\* The react phrase, in capitals and inside a sentence, has been recognized
\* and its template's mount started.
C16_Witness ==
    /\ \E k \in 1..(Len(messages) - 1) :
           /\ messages[k] = [sender |-> Peer, message |-> tReactCmd]
           /\ messages[k + 1] = ThinkingReact
    /\ \E k \in 1..Len(mounts) : mounts[k].origin = "react"

\* C17: an inbound message of the automated sender is appended alone, with
\* no progress message after it, and a trigger phrase in it starts no
\* mount: without a "fileTree" key in the message nothing is mounted.
C17_AutomatedNotRecognized ==
    [][(ReceiveStep /\ Received.sender = Ai) =>
          /\ messages' = Append(messages, Received)
          /\ ~includes(Received.message, Quoted(kFileTree)) => mounts' = mounts]_vars

\* A message of the automated sender with the react phrase in it has been
\* handled, and nothing has been mounted and no progress message appended.
C17_Witness ==
    /\ \E k \in 1..Len(messages) : messages[k] = [sender |-> Ai, message |-> aiReactPhrase]
    /\ \A k \in 1..Len(messages) : messages[k] # ThinkingReact
    /\ mounts = <<>>
    /\ HandlerHasContainer

\* C18: the Timeline only grows at its end: in every step (a local send,
\* an inbound event with or without a directive, the settling of a mount,
\* a retry of the connection) the Timeline before is a prefix of the
\* Timeline after.
C18_TimelineAppendOnly == [][IsPrefix(messages, messages')]_vars

\* The Timeline holds a local message, an inbound directive with its
\* progress message and the outcome of the template's mount, and the
\* connection has been retried.
C18_Witness ==
    /\ \E k \in 1..Len(messages) : messages[k] = [sender |-> Me, message |-> tHi]
    /\ \E k \in 1..Len(messages) : messages[k] = ThinkingReact
    /\ \E k \in 1..Len(messages) : messages[k] \in {ReactCreated, ReactFailed}
    /\ Len(emitted) > 0
    /\ Len(sockets) > 2

\* The mount k fails in this step: its promise is rejected.
MountFailedStep(k) == mounts[k].status = "pending" /\ mounts'[k].status = "failed"

\* C19: when the mount of a tree fails, the component's tree is that tree
\* all the same: the replacement is kept, whatever the sandbox did with it.
C19_FailedMountKeepsTree ==
    [][\A k \in 1..Len(mounts) : MountFailedStep(k) => fileTree' = mounts[k].tree]_vars

\* C20: every mount that fails, of a template or of the inline tree of an
\* automated message, appends one message of the automated sender to the
\* Timeline, which reports the failure.
C20_EveryFailureReported ==
    [][\A k \in 1..Len(mounts) :
          MountFailedStep(k) =>
              /\ Len(messages') = Len(messages) + 1
              /\ IsPrefix(messages, messages')
              /\ messages'[Len(messages')].sender = Ai]_vars

\* No webContainer.mount(...) has been called whose promise is unsettled.
NoMountInFlight == \A k \in 1..Len(mounts) : mounts[k].status # "pending"

\* C21: in every state where no mount is in flight, the tree the sandbox
\* holds (the tree of the last mount that succeeded, the empty tree before
\* any) is the component's tree, fileTree.
C21_SandboxConverges == NoMountInFlight => mounted = fileTree

\* The mount k of a template succeeds in this step while the component's
\* tree and the sandbox's tree are already that template: the same replace
\* once more.
RepeatedReplaceStep(k) ==
    /\ mounts[k].status = "pending"
    /\ mounts'[k].status = "ok"
    /\ mounts[k].origin \in {"react", "express"}
    /\ mounts[k].tree = fileTree
    /\ mounts[k].tree = mounted

\* What the .then of a template's mount appends.
CreatedMessage(origin) == IF origin = "react" THEN ReactCreated ELSE ExpressCreated

\* C22 (as claimed): a replace with the tree the component already has
\* leaves the component's tree, the sandbox's tree and every other
\* observable state, the Timeline included, as the first replace left them.
C22_RepeatedReplaceChangesNothing ==
    [][\A k \in 1..Len(mounts) :
          RepeatedReplaceStep(k) =>
              UNCHANGED <<fileTree, mounted, messages, project, socketError, currentFile,
                          openFiles, saves>>]_vars

\* C22 (amended): a replace with the tree the component already has leaves
\* the component's tree, the sandbox's tree, the project, the editor and
\* the persistence calls as they were, and appends the template's success
\* message to the Timeline once more.
C22_RepeatedReplaceKeepsTrees ==
    [][\A k \in 1..Len(mounts) :
          RepeatedReplaceStep(k) =>
              /\ UNCHANGED <<fileTree, mounted, project, socketError, currentFile,
                             openFiles, saves>>
              /\ messages' = Append(messages, CreatedMessage(mounts[k].origin))]_vars

\* The same template has been mounted twice with success, and both mounts
\* have been reported.
C22_Witness ==
    /\ Len(mounts) = 2
    /\ mounts[1].status = "ok"
    /\ mounts[2].status = "ok"
    /\ mounts[1].tree = mounts[2].tree
    /\ mounted = mounts[1].tree
    /\ fileTree = mounted
    /\ \E j, k \in 1..Len(messages) :
          j < k /\ messages[j] = ReactCreated /\ messages[k] = ReactCreated

\* An edit of the open file succeeds in this step: onBlur sets the tree.
EditSucceededStep == onBlurStep /\ editRet' = "ok"

\* The mount k of a template succeeds in this step.
TemplateMountedStep(k) ==
    /\ mounts[k].status = "pending"
    /\ mounts'[k].status = "ok"
    /\ mounts[k].origin \in {"react", "express"}

\* The step calls the persistence once, with the project and the tree the
\* step leaves.
PersistsResultingTree ==
    /\ saves'.calls = saves.calls + 1
    /\ saves'.last = [projectId |-> project, fileTree |-> fileTree']

\* C23: every edit that succeeds and every template mount that succeeds
\* calls the file-tree persistence once, with the tree the step leaves.
C23_EveryLocalChangePersisted ==
    [][(EditSucceededStep \/ \E k \in 1..Len(mounts) : TemplateMountedStep(k))
          => PersistsResultingTree]_vars

\* A persistence call fails in this step: the PUT's promise is rejected.
SaveFailedStep == saves'.failed = saves.failed + 1

\* C24: a persistence call that fails leaves the component's tree as it is
\* (the edit is not undone) and is not followed by another call: the
\* number of calls and the last payload stay, one call fewer is pending.
C24_FailedSaveKeepsEdit ==
    [][SaveFailedStep =>
          /\ fileTree' = fileTree
          /\ saves'.calls = saves.calls
          /\ saves'.last = saves.last
          /\ saves'.pending = saves.pending - 1
          /\ editRet' = editRet]_vars

\* One edit has been made and its persistence call has failed: the tree is
\* the edited one, the one that was sent, and no call is pending.
C24_Witness ==
    /\ saves.calls = 1
    /\ saves.failed = 1
    /\ saves.pending = 0
    /\ editRet = "ok"
    /\ fileTree = saves.last.fileTree
    /\ fileTree # SeedA

\* The number of places of seq that hold x.
Occurrences(seq, x) == Cardinality({k \in 1..Len(seq) : seq[k] = x})

\* The number of times send has emitted data.
TimesSent(data) == Cardinality({k \in 1..Len(emitted) : emitted[k].data = data})

\* C25: nothing is filtered: a message of the local user is in the Timeline
\* once for every send of it and once more for every inbound event that
\* carries it, so a message that was sent and echoed is there twice.
C25_EchoIsNotFiltered ==
    \A text \in LocalTexts :
        LET own == [sender |-> Me, message |-> text] IN
        Occurrences(messages, own) = TimesSent(own) + Occurrences(observed, own)

\* The user has sent 'hi' once, the channel has echoed it once, and the
\* Timeline holds it twice.
C25_Witness ==
    LET own == [sender |-> Me, message |-> tHi] IN
    /\ TimesSent(own) = 1
    /\ Occurrences(observed, own) = 1
    /\ Occurrences(messages, own) = 2

\* The messages the component itself writes: progress and outcome.
SyntheticMessages ==
    {ThinkingReact, ThinkingExpress, ReactCreated, ExpressCreated, ReactFailed, ExpressFailed}

\* The records of the Timeline that are not the component's own.
IsEventRecord(m) == m \notin SyntheticMessages

\* C26: the records of the Timeline other than the component's progress and
\* outcome messages are the inbound events' data, one record for each event,
\* in the order in which the handler was run with them.
C26_OneRecordPerEventInOrder == SelectSeq(messages, IsEventRecord) = observed

\* A message that is not JSON from the automated sender, then an inline
\* tree, then a directive of a user have arrived; the inline tree's mount
\* has succeeded and the template's mount has failed.
C26_Witness ==
    /\ observed = <<[sender |-> Ai, message |-> tHi], [sender |-> Ai, message |-> aiInlineTree],
                    [sender |-> Peer, message |-> tReactCmd]>>
    /\ Len(mounts) = 2
    /\ mounts[1].status = "ok"
    /\ mounts[2].status = "failed"
    /\ Len(messages) = 5

\* A send whose sendMessage returns true: the one step that emits.
SendReturnsTrueStep == Len(emitted') = Len(emitted) + 1

\* A send whose sendMessage returns false, where the step shows it: the
\* result of the last send becomes false, or it stays false while, with no
\* error shown (so that Retry is not offered), a socket is made for the same
\* project.
SendReturnsFalseStep ==
    /\ sendRet' = "false"
    /\ \/ sendRet # "false"
       \/ /\ socketError = "none"
          /\ lifecycle = "open"
          /\ project' = project
          /\ Len(sockets') = Len(sockets) + 1

\* The record send appends for the text in the input field.
OwnRecord == [sender |-> Me, message |-> message]

\* C27 (as claimed): every send of a text that is not blank appends the
\* message to the Timeline, whether sendMessage returns true or false.
C27_AppendWhateverSendReturns ==
    [][(SendReturnsTrueStep \/ SendReturnsFalseStep)
          => messages' = Append(messages, OwnRecord)]_vars

\* C27 (amended): send appends the message only when sendMessage has
\* returned true, and then it is the message that was emitted; when
\* sendMessage returns false the Timeline stays as it is.
C27_AppendOnlyAfterSendSucceeds ==
    [][/\ SendReturnsTrueStep =>
             /\ messages' = Append(messages, OwnRecord)
             /\ emitted'[Len(emitted')].data = OwnRecord
       /\ SendReturnsFalseStep => messages' = messages]_vars

\* A send has succeeded and a later one, after Retry has made a new socket
\* that is not connected yet, has returned false: the Timeline holds the
\* first message only.
C27_Witness ==
    /\ sendRet = "false"
    /\ ~IsBlank(message)
    /\ Len(emitted) = 1
    /\ messages = <<[sender |-> Me, message |-> tHi]>>

\* C28: when sendMessage returns false in send, the same step sets the
\* connection error (with which the Retry button is shown), emits nothing,
\* appends nothing to the Timeline and keeps the text in the input field.
C28_FailedSendShowsError ==
    [][SendReturnsFalseStep =>
          /\ socketError' = "send"
          /\ emitted' = emitted
          /\ messages' = messages
          /\ message' = message]_vars

\* A send has returned false before the first socket was connected: the
\* error is shown and nothing has been emitted or appended.
C28_Witness ==
    /\ sendRet = "false"
    /\ socketError = "send"
    /\ message = tHi
    /\ emitted = <<>>
    /\ messages = <<>>
    /\ Len(sockets) = 2

\* The progress message of a directive, the outcome messages of a template.
ProgressMessage(d) == IF d = "react" THEN ThinkingReact ELSE ThinkingExpress
OutcomeMessages(origin) ==
    IF origin = "react" THEN {ReactCreated, ReactFailed} ELSE {ExpressCreated, ExpressFailed}

\* The mount k of a template settles in this step, with success or not.
TemplateSettledStep(k) ==
    /\ mounts[k].status = "pending"
    /\ mounts'[k].status # "pending"
    /\ mounts[k].origin \in {"react", "express"}

\* C29: the handler run with a user's directive appends the user's message
\* and then the progress message, in one step, and the mount it starts is
\* still pending when the step ends; the step in which a template's mount
\* settles appends the outcome message at the end of a Timeline that
\* already holds a directive of that template with its progress message
\* next to it.
C29_MessageProgressThenOutcome ==
    [][/\ (ReceiveStep /\ Directive(Received) \in {"react", "express"}) =>
             /\ messages' = messages \o <<Received, ProgressMessage(Directive(Received))>>
             /\ \A k \in 1..Len(mounts') : k > Len(mounts) => mounts'[k].status = "pending"
             /\ \A k \in 1..Len(mounts) : mounts'[k] = mounts[k]
       /\ \A k \in 1..Len(mounts) :
             TemplateSettledStep(k) =>
                 /\ Len(messages') = Len(messages) + 1
                 /\ messages'[Len(messages')] \in OutcomeMessages(mounts[k].origin)
                 /\ IsPrefix(messages, messages')
                 /\ \E j \in 1..(Len(messages) - 1) :
                       /\ messages[j] \in MountInbound
                       /\ Directive(messages[j]) = mounts[k].origin
                       /\ messages[j + 1] = ProgressMessage(mounts[k].origin)]_vars

\* Two directives have arrived, each followed by its progress message, and
\* then the two mounts have settled, the later one first.
C29_Witness ==
    messages = <<[sender |-> Peer, message |-> tReactCmd], ThinkingReact,
                 [sender |-> Peer, message |-> tExpressCmd], ThinkingExpress,
                 ExpressFailed, ReactCreated>>

\* text holds the react phrase and an express phrase, in any case.
HasBothPhrases(text) ==
    /\ includes(toLowerCase(text), reactPhrase)
    /\ \/ includes(toLowerCase(text), expressPhrase)
       \/ includes(toLowerCase(text), expressPhraseAn)

\* C30: the handler run with a user's message that holds the react phrase
\* and an express phrase appends the message and the React progress
\* message, no other, and starts at most one mount, which is the React
\* template's.
C30_ReactWinsOverExpress ==
    [][(ReceiveStep /\ Received.sender # Ai /\ HasBothPhrases(Received.message)) =>
          /\ messages' = messages \o <<Received, ThinkingReact>>
          /\ Len(mounts') <= Len(mounts) + 1
          /\ \A k \in 1..Len(mounts') :
                k > Len(mounts) =>
                    mounts'[k] = [tree |-> basicReactApp, origin |-> "react", status |-> "pending"]]_vars

\* A message with the express phrase before the react phrase has arrived
\* and the one mount it started, of the React template, has succeeded.
C30_Witness ==
    /\ observed = <<[sender |-> Peer, message |-> tExpressThenReact]>>
    /\ messages = <<[sender |-> Peer, message |-> tExpressThenReact], ThinkingReact, ReactCreated>>
    /\ Len(mounts) = 1
    /\ mounts[1].origin = "react"
    /\ fileTree = basicReactApp

\* The mounts whose promise is not settled.
MountsInFlight == {k \in 1..Len(mounts) : mounts[k].status = "pending"}

\* C31: at most one webContainer.mount(...) is in flight: no two mounts, of
\* templates or of inline trees, are started and both unsettled.
C31_AtMostOneMountInFlight == Cardinality(MountsInFlight) <= 1

\* The changes of phase the state machine names.
PhaseEdges ==
    {<<"Disconnected", "Connecting">>, <<"Connecting", "Connected">>,
     <<"Connecting", "Disconnected">>, <<"Connected", "Disconnected">>}

\* initializeSocket has made a socket in this step and it is the current
\* one; the socket that was current before, if any, has been closed first.
InitializeStep == Len(sockets') = Len(sockets) + 1 /\ socket' = Len(sockets')

\* The socket client, its connection lost, starts to reconnect by itself.
AutoReconnectStep ==
    /\ socket # 0
    /\ socket' = socket
    /\ Len(sockets') = Len(sockets)
    /\ sockets[socket].phase = "connected"
    /\ sockets'[socket].phase = "connecting"

\* The component unmounts with a cleanup to run: teardown.
TeardownStep == lifecycle = "open" /\ lifecycle' = "closed" /\ cleanup

\* C32 (as claimed): the phase changes along the four edges of the state
\* machine only (initializeSocket, which closes the current socket before
\* it makes the next, takes two of them in one step); the phase becomes
\* Connecting only in a step of initializeSocket; teardown leaves the phase
\* Disconnected and no socket.
C32_PhaseMachine ==
    [][/\ ChannelPhase' # ChannelPhase =>
             (<<ChannelPhase, ChannelPhase'>> \in PhaseEdges \/ InitializeStep)
       /\ (ChannelPhase # "Connecting" /\ ChannelPhase' = "Connecting") => InitializeStep
       /\ TeardownStep => (ChannelPhase' = "Disconnected" /\ socket' = 0)]_vars

\* C32 (amended): the phase never goes from Disconnected to Connected; from
\* Disconnected it becomes Connecting only in a step of initializeSocket;
\* from Connected it becomes Connecting in a step of initializeSocket or
\* when the socket client reconnects by itself after the connection was
\* lost; teardown leaves the phase Disconnected and no socket.
C32_PhaseMachineWithReconnection ==
    [][/\ ChannelPhase' # ChannelPhase =>
             \/ <<ChannelPhase, ChannelPhase'>> \in PhaseEdges
             \/ InitializeStep
             \/ AutoReconnectStep
       /\ (ChannelPhase = "Disconnected" /\ ChannelPhase' = "Connecting") => InitializeStep
       /\ (ChannelPhase = "Connected" /\ ChannelPhase' = "Connecting") =>
             (InitializeStep \/ AutoReconnectStep)
       /\ TeardownStep => (ChannelPhase' = "Disconnected" /\ socket' = 0)]_vars

\* A message has gone out on the one socket there is, the connection was
\* then lost and the client is reconnecting.
C32_Witness ==
    /\ Len(sockets) = 1
    /\ socket = 1
    /\ ChannelPhase = "Connecting"
    /\ Len(emitted) = 1
    /\ emitted[1].sock = 1

\* The mirror is busy, has failed or is not there: a mount is in flight, a
\* mount has failed, or the sandbox has not booted.
MirrorNotReady ==
    \/ MountsInFlight # {}
    \/ \E k \in 1..Len(mounts) : mounts[k].status = "failed"
    \/ ~webContainer

\* C33: while a mount is in flight, after a mount has failed and while the
\* sandbox has not booted, send, the inbound handler and onBlur can be
\* taken whenever their own conditions hold (an open workspace, a text that
\* is not blank, a connected socket with the handler, an open file, and the
\* bounds of the model), and have their effect: a send that emits appends
\* the message, the handler appends the event's data first, an edit that
\* succeeds sets the tree onBlur builds and calls the persistence.
C33_ChatAndEditDecoupled ==
    [][MirrorNotReady =>
          /\ (lifecycle = "open" /\ ~IsBlank(message) /\ ChannelPhase = "Connected"
                 /\ Len(messages) < MaxTimeline)
                => ENABLED send
          /\ \A i \in 1..Len(sockets), data \in DecoupledInbound :
                (sockets[i].phase = "connected" /\ sockets[i].handlers # <<>>
                     /\ Len(messages) < MaxTimeline /\ Len(mounts) < MaxMounts)
                    => ENABLED Receive(i, data)
          /\ (lifecycle = "open" /\ currentFile # <<>> /\ saves.calls < MaxSaves)
                => \A c \in EditContents : ENABLED onBlur(c)
          /\ SendReturnsTrueStep => messages' = Append(messages, OwnRecord)
          /\ ReceiveStep =>
                (IsPrefix(messages \o <<Received>>, messages') /\ fileTree' = fileTree)
          /\ EditSucceededStep =>
                /\ \E c \in EditContents :
                      fileTree' = onBlurResult(fileTree, currentFile, c).ft
                /\ PersistsResultingTree
                /\ UNCHANGED <<messages, mounts, mounted>>]_vars

\* With a mount in flight a.txt has been edited and 'hi' has been sent after
\* the directive.
C33_Witness ==
    /\ MountsInFlight # {}
    /\ editRet = "ok"
    /\ Prop(fileTree, nATxt) = FileLeaf(<<"x">>)
    /\ Len(messages) = 3
    /\ messages[3] = [sender |-> Me, message |-> tHi]

\* The messages after place j of the Timeline.
After(j) == {messages[k] : k \in (j + 1)..Len(messages)}

\* C34: once every mount that was started has settled, every progress
\* message of the Timeline has a success or failure message of its template
\* after it.  (Only the settling of a mount appends such a message, so a
\* progress message without one in such a state never gets one.)
C34_ProgressHasOutcome ==
    NoMountInFlight =>
        \A j \in 1..Len(messages) :
            /\ messages[j] = ThinkingReact => After(j) \cap OutcomeMessages("react") # {}
            /\ messages[j] = ThinkingExpress => After(j) \cap OutcomeMessages("express") # {}

\* The template a directive stands for.
TemplateOf(d) == IF d = "react" THEN basicReactApp ELSE expressApp

\* C35: when the sandbox has booted before a user's directive arrives, the
\* handler run with that directive calls webContainer.mount with the
\* directive's template: one more mount, pending, of that template.
C35_BootedSandboxIsMounted ==
    [][(ReceiveStep /\ webContainer /\ Directive(Received) \in {"react", "express"}) =>
          /\ Len(mounts') = Len(mounts) + 1
          /\ mounts'[Len(mounts')] =
                PendingMount(TemplateOf(Directive(Received)), Directive(Received))]_vars

\* The names a directory node holds.
ChildNames(node) == Range(ObjectKeys(Prop(node, kDirectory)))

\* C36: an edit that succeeds changes the kind of no root entry: a
\* directory is a directory afterwards and holds every name it held (the
\* explorer offers every root key, directories too, as a file to edit), and
\* a file leaf is a file leaf afterwards.
C36_EditKeepsNodeKinds ==
    [][EditSucceededStep =>
          \A k \in Range(ObjectKeys(fileTree)) :
              /\ IsDirectory(Prop(fileTree, k)) =>
                    /\ IsDirectory(Prop(fileTree', k))
                    /\ ChildNames(Prop(fileTree, k)) \subseteq ChildNames(Prop(fileTree', k))
              /\ IsFileLeaf(Prop(fileTree, k)) => IsFileLeaf(Prop(fileTree', k))]_vars

\* C37: an edit that succeeds adds no entry: every path of the tree after
\* it is a path of the tree before it, whatever has replaced the tree while
\* the file was open in the editor.
C37_EditAddsNoEntry ==
    [][EditSucceededStep => ExplorerPaths(fileTree') \subseteq ExplorerPaths(fileTree)]_vars

\* The project fetch is answered in this step: one fetch fewer is pending,
\* or the project id has changed (and the effect has fetched again).
FetchAnsweredStep ==
    /\ lifecycle = "open"
    /\ lifecycle' = "open"
    /\ fetches > 0
    /\ mounts' = mounts
    /\ saves' = saves
    /\ fetches' = fetches - 1 \/ project' # project

\* C38: the answer of the project fetch does not replace the tree once a
\* mount has succeeded or an edit has been made: it seeds the initial tree
\* only.
C38_SeedKeepsNewerTree ==
    [][(/\ FetchAnsweredStep
        /\ \/ \E k \in 1..Len(mounts) : mounts[k].status = "ok"
           \/ editRet = "ok")
       => fileTree' = fileTree]_vars

\* C39: while the workspace is open, the current socket, once connected,
\* has the 'project-message' handler, so that the events that arrive on it
\* are appended to the Timeline; so too when the socket was made by Retry
\* or by a failed send.
C39_ConnectedSocketHasHandler ==
    (lifecycle = "open" /\ ChannelPhase = "Connected") => sockets[socket].handlers # <<>>

\* The template the raw text of a flag message chooses: react if the text
\* holds the word react in any case, else express if it holds the word
\* express, else none.
ChosenTemplate(text) ==
    IF includes(toLowerCase(text), wReact) THEN "react"
    ELSE IF includes(toLowerCase(text), wExpress) THEN "express"
    ELSE "none"

====
